---- MODULE Spec2Model ----
(***************************************************************************)
(* A model of github.com/boostgo/requests: the Request configuration       *)
(* object, the materialization of the wire request (initRequest), the      *)
(* retry loop (retryDo) and the single attempt (do).                       *)
(*                                                                         *)
(* Strings are sequences of ASCII codes, so that concatenation, header-key *)
(* canonicalization, base64 and URL escaping are computed, not assumed.    *)
(***************************************************************************)
EXTENDS Integers, Sequences, FiniteSets, TLC

\* ------------------------------------------------------------------ bounds

\* The largest value handed to RetryCount.
MaxRetry == 3
\* The largest value handed to Timeout (0 and negative values are ignored).
MaxTimeout == 1

\* The goroutines that call execution operations on the one Request.
Procs == {1, 2}

\* The nil value of a pointer, an interface, a slice or an error.
Nil == [nil |-> TRUE]

\* An error, by its kind.
Err(kind) == [kind |-> kind]

\* A non-nil byte slice.
Blob(b) == [bytes |-> b]

\* ----------------------------------------------------------------- strings

RECURSIVE Flatten(_)
\* The concatenation of a sequence of sequences.
Flatten(ss) == IF ss = <<>> THEN <<>> ELSE Head(ss) \o Flatten(Tail(ss))

IsUpper(c) == c \in 65..90
IsLower(c) == c \in 97..122
IsDigit(c) == c \in 48..57
ToUpper(c) == IF IsLower(c) THEN c - 32 ELSE c
ToLower(c) == IF IsUpper(c) THEN c + 32 ELSE c

\* String literals of the source (and of net/http), as ASCII codes.
\* "GET", "POST"
sGET == <<71, 69, 84>>
sPOST == <<80, 79, 83, 84>>
\* "Bearer " and "Basic "
sBearerSp == <<66, 101, 97, 114, 101, 114, 32>>
sBasicSp == <<66, 97, 115, 105, 99, 32>>
\* "Authorization", "Content-Type", "Cookie"
sAuthorization == <<65, 117, 116, 104, 111, 114, 105, 122, 97, 116, 105, 111, 110>>
sContentType == <<67, 111, 110, 116, 101, 110, 116, 45, 84, 121, 112, 101>>
sCookie == <<67, 111, 111, 107, 105, 101>>
\* "application/octet-stream"
sOctetStream == <<97, 112, 112, 108, 105, 99, 97, 116, 105, 111, 110, 47, 111, 99, 116, 101, 116, 45, 115, 116, 114, 101, 97, 109>>
\* "application/x-www-form-urlencoded"
sFormUrlEncoded == <<97, 112, 112, 108, 105, 99, 97, 116, 105, 111, 110, 47, 120, 45, 119, 119, 119, 45, 102, 111, 114, 109, 45, 117, 114, 108, 101, 110, 99, 111, 100, 101, 100>>
\* "multipart/form-data; boundary="
sMultipart == <<109, 117, 108, 116, 105, 112, 97, 114, 116, 47, 102, 111, 114, 109, 45, 100, 97, 116, 97, 59, 32, 98, 111, 117, 110, 100, 97, 114, 121, 61>>
\* "application/json"
sApplicationJson == <<97, 112, 112, 108, 105, 99, 97, 116, 105, 111, 110, 47, 106, 115, 111, 110>>

\* A value of type any handed to a configuration call: a string or an int.
StrV(s) == [t |-> "string", v |-> s]
IntV(n) == [t |-> "int", v |-> n]

RECURSIVE Itoa(_)
\* The decimal digits of a natural number.
Itoa(n) == IF n < 10 THEN <<48 + n>> ELSE Itoa(n \div 10) \o <<48 + (n % 10)>>

\* convert.String: a string as it is, an integer in decimal.
convertString(x) ==
  IF x.t = "string" THEN x.v
  ELSE IF x.v < 0 THEN <<45>> \o Itoa(0 - x.v) ELSE Itoa(x.v)

\* A byte net/textproto accepts in a header field name.
IsTokenChar(c) ==
  IsUpper(c) \/ IsLower(c) \/ IsDigit(c)
    \/ c \in {33, 35, 36, 37, 38, 39, 42, 43, 45, 46, 94, 95, 96, 124, 126}

RECURSIVE canonicalFrom(_, _)
canonicalFrom(s, upper) ==
  IF s = <<>> THEN <<>>
  ELSE LET c == Head(s)
           d == IF upper THEN ToUpper(c) ELSE ToLower(c)
       IN <<d>> \o canonicalFrom(Tail(s), c = 45)

\* textproto.CanonicalMIMEHeaderKey, which http.Header.Set applies to the key:
\* the first letter and every letter after a '-' in upper case, the others in
\* lower case; a key holding a byte that is no token byte is left as it is.
CanonicalMIMEHeaderKey(s) ==
  IF \A k \in 1..Len(s) : IsTokenChar(s[k]) THEN canonicalFrom(s, TRUE) ELSE s

\* The character of base64.StdEncoding for a 6-bit value.
Base64Char(v) ==
  IF v < 26 THEN 65 + v
  ELSE IF v < 52 THEN 97 + (v - 26)
  ELSE IF v < 62 THEN 48 + (v - 52)
  ELSE IF v = 62 THEN 43 ELSE 47

RECURSIVE Base64(_)
\* base64.StdEncoding.EncodeToString: three bytes to four characters, the last
\* group padded with '='.
Base64(b) ==
  IF Len(b) = 0 THEN <<>>
  ELSE IF Len(b) = 1 THEN
    <<Base64Char(b[1] \div 4), Base64Char((b[1] % 4) * 16), 61, 61>>
  ELSE IF Len(b) = 2 THEN
    <<Base64Char(b[1] \div 4), Base64Char((b[1] % 4) * 16 + b[2] \div 16),
      Base64Char((b[2] % 16) * 4), 61>>
  ELSE
    <<Base64Char(b[1] \div 4), Base64Char((b[1] % 4) * 16 + b[2] \div 16),
      Base64Char((b[2] % 16) * 4 + b[3] \div 64), Base64Char(b[3] % 64)>>
      \o Base64(SubSeq(b, 4, Len(b)))

\* m with key k set to v (a Go map assignment, http.Header.Set on one value).
MapSet(m, k, v) == [x \in DOMAIN m \cup {k} |-> IF x = k THEN v ELSE m[x]]

\* The empty map.
EmptyMap == [x \in {} |-> <<>>]

\* ------------------------------------------------------- net/url, as used

\* The first index of byte c in s, or 0.
IndexByte(s, c) ==
  IF \E k \in 1..Len(s) : s[k] = c
  THEN CHOOSE k \in 1..Len(s) : s[k] = c /\ \A j \in 1..(k - 1) : s[j] # c
  ELSE 0

RECURSIVE Split(_, _)
\* strings.Split on one separator byte.
Split(s, c) ==
  LET k == IndexByte(s, c)
  IN IF k = 0 THEN <<s>>
     ELSE <<SubSeq(s, 1, k - 1)>> \o Split(SubSeq(s, k + 1, Len(s)), c)

RECURSIVE Join(_, _)
\* strings.Join.
Join(ss, sep) ==
  IF ss = <<>> THEN <<>>
  ELSE IF Len(ss) = 1 THEN ss[1]
  ELSE ss[1] \o sep \o Join(Tail(ss), sep)

HexDigit(v) == IF v < 10 THEN 48 + v ELSE 65 + (v - 10)
IsHex(c) == IsDigit(c) \/ c \in 65..70 \/ c \in 97..102
UnHex(c) == IF IsDigit(c) THEN c - 48 ELSE IF c \in 97..102 THEN c - 87 ELSE c - 55

\* url.shouldEscape in query-component mode: letters, digits, '-', '_', '.'
\* and '~' are kept.
shouldEscape(c) == ~(IsUpper(c) \/ IsLower(c) \/ IsDigit(c) \/ c \in {45, 95, 46, 126})

\* url.QueryEscape of one byte: ' ' becomes '+', an escaped byte %XX.
escapeByte(c) ==
  IF c = 32 THEN <<43>>
  ELSE IF shouldEscape(c) THEN <<37, HexDigit(c \div 16), HexDigit(c % 16)>>
  ELSE <<c>>

\* url.QueryEscape.
QueryEscape(s) == Flatten([k \in 1..Len(s) |-> escapeByte(s[k])])

RECURSIVE validEscapes(_)
\* Every '%' of s is followed by two hex digits.
validEscapes(s) ==
  IF s = <<>> THEN TRUE
  ELSE IF Head(s) = 37
    THEN Len(s) >= 3 /\ IsHex(s[2]) /\ IsHex(s[3]) /\ validEscapes(SubSeq(s, 4, Len(s)))
    ELSE validEscapes(Tail(s))

RECURSIVE unescapeValid(_)
unescapeValid(s) ==
  IF s = <<>> THEN <<>>
  ELSE IF Head(s) = 37
    THEN <<UnHex(s[2]) * 16 + UnHex(s[3])>> \o unescapeValid(SubSeq(s, 4, Len(s)))
    ELSE <<IF Head(s) = 43 THEN 32 ELSE Head(s)>> \o unescapeValid(Tail(s))

\* url.QueryUnescape: [ok, s].
QueryUnescape(s) ==
  IF validEscapes(s) THEN [ok |-> TRUE, s |-> unescapeValid(s)]
  ELSE [ok |-> FALSE, s |-> <<>>]

RECURSIVE parsePairs(_, _)
\* url.parseQuery over the '&'-separated pairs: an empty pair, a pair holding
\* ';' and a pair whose key or value does not unescape are skipped; a value is
\* appended to the values of its key.
parsePairs(pairs, m) ==
  IF pairs = <<>> THEN m
  ELSE LET pr == Head(pairs)
           eq == IndexByte(pr, 61)
           k == QueryUnescape(IF eq = 0 THEN pr ELSE SubSeq(pr, 1, eq - 1))
           v == QueryUnescape(IF eq = 0 THEN <<>> ELSE SubSeq(pr, eq + 1, Len(pr)))
           skip == pr = <<>> \/ IndexByte(pr, 59) # 0 \/ ~k.ok \/ ~v.ok
           old == IF k.s \in DOMAIN m THEN m[k.s] ELSE <<>>
       IN parsePairs(Tail(pairs), IF skip THEN m ELSE MapSet(m, k.s, Append(old, v.s)))

\* URL.Query(): the url.Values (key to list of values) of a raw query.
ParseQuery(raw) == parsePairs(Split(raw, 38), EmptyMap)

RECURSIVE SeqLess(_, _)
\* Byte-wise order of strings, the order sort.Strings uses.
SeqLess(a, b) ==
  IF b = <<>> THEN FALSE
  ELSE IF a = <<>> THEN TRUE
  ELSE IF Head(a) # Head(b) THEN Head(a) < Head(b)
  ELSE SeqLess(Tail(a), Tail(b))

RECURSIVE SortedKeys(_)
\* The elements of a set of strings in increasing order.
SortedKeys(S) ==
  IF S = {} THEN <<>>
  ELSE LET lo == CHOOSE x \in S : \A y \in S \ {x} : SeqLess(x, y)
       IN <<lo>> \o SortedKeys(S \ {lo})

\* The pairs k=v of one key of url.Values.Encode.
encodeKey(values, k) ==
  [j \in 1..Len(values[k]) |-> QueryEscape(k) \o <<61>> \o QueryEscape(values[k][j])]

RECURSIVE encodeKeys(_, _)
encodeKeys(values, keys) ==
  IF keys = <<>> THEN <<>>
  ELSE encodeKey(values, Head(keys)) \o encodeKeys(values, Tail(keys))

\* url.Values.Encode: the keys sorted, every pair escaped, joined by '&'.
Encode(values) == Join(encodeKeys(values, SortedKeys(DOMAIN values)), <<38>>)

\* url.Parse as far as http.NewRequest depends on it: a URL that starts with
\* ':' has no protocol scheme, and a URL holding an ASCII control byte is
\* rejected.
urlParseOK(u) ==
  /\ ~(Len(u) > 0 /\ u[1] = 58)
  /\ \A k \in 1..Len(u) : u[k] >= 32 /\ u[k] # 127

\* The raw query of a URL: what follows the first '?'.
rawQueryOf(u) ==
  LET q == IndexByte(u, 63) IN IF q = 0 THEN <<>> ELSE SubSeq(u, q + 1, Len(u))

\* The URL without its query.
pathOf(u) ==
  LET q == IndexByte(u, 63) IN IF q = 0 THEN u ELSE SubSeq(u, 1, q - 1)

\* net/http's validMethod: a non-empty token.
validMethod(m) == Len(m) > 0 /\ \A k \in 1..Len(m) : IsTokenChar(m[k])

\* ---------------------------------------------------------------- Request

\* The body argument of an execution operation: Nil (absent, or a nil value),
\* or a value described by what the type switch of initRequest asks of it:
\* caps, the encoder interfaces it satisfies; contentType, what ContentType()
\* returns (for a Form-Data encoder the multipart value with its boundary);
\* closeOK, whether Close() returns nil; jsonOK, whether json.Marshal accepts
\* it; data, the bytes it yields (see Data).
Body(caps, contentType, closeOK, jsonOK, data) ==
  [caps |-> caps, contentType |-> contentType, closeOK |-> closeOK,
   jsonOK |-> jsonOK, data |-> data]

\* The bytes a body value yields: buffer, what Buffer() holds once Close() has
\* run; reader, what Reader() reads; json, what json.Marshal returns.
Data(buffer, reader, json) == [buffer |-> buffer, reader |-> reader, json |-> json]

\* basicAuth{} of auth.go.
emptyBasic == [username |-> <<>>, password |-> <<>>]

\* initBasicAuth of auth.go.
initBasicAuth(username, password) == [username |-> username, password |-> password]

\* R: the Request after construction, ctx naming the context it holds. The
\* maps are made by R; aliases names the map fields that hold, instead, the
\* map object of the Client the Request was obtained from.
R(ctx) ==
  [ctx |-> ctx, baseURL |-> <<>>, client |-> Nil, export |-> Nil,
   queryVariables |-> EmptyMap, headers |-> EmptyMap, cookies |-> EmptyMap,
   retryCount |-> 1, retryWait |-> 100, timeout |-> 0,
   basic |-> emptyBasic, bearerToken |-> <<>>, options |-> <<>>,
   req |-> Nil, resp |-> Nil, response |-> Nil, mx |-> 0, aliases |-> {}]

\* Request.Header: one key of the headers map written.
Header(r, key, value) == [r EXCEPT !.headers = MapSet(r.headers, key, value)]

\* Request.Options: the list of hooks replaced, unless none is given.
Options(r, opts) == IF Len(opts) = 0 THEN r ELSE [r EXCEPT !.options = opts]

\* Mutant of RetryCount: every count is stored.
RetryCount_unguarded(r, count) == [r EXCEPT !.retryCount = count]

\* Request.RetryCount: ignored for a count of 1 or less.
RetryCount(r, count) == IF count <= 1 THEN r ELSE [r EXCEPT !.retryCount = count]

\* Request.RetryWait: ignored for a wait of 0 or less.
RetryWait(r, wait) == IF wait <= 0 THEN r ELSE [r EXCEPT !.retryWait = wait]

\* Request.Timeout: ignored for a timeout of 0 or less.
Timeout(r, timeout) == IF timeout <= 0 THEN r ELSE [r EXCEPT !.timeout = timeout]

\* A pointer and a value that is no pointer, as export arguments.
Ptr == [pointer |-> TRUE]
NonPtr == [pointer |-> FALSE]

\* Request.Result: ignored unless export is a pointer.
Result(r, export) == IF export # Ptr THEN r ELSE [r EXCEPT !.export = export]

\* Mutant of BasicAuth: every username is stored.
BasicAuth_unguarded(r, username, password) ==
  [r EXCEPT !.basic = initBasicAuth(username, password)]

\* Request.BasicAuth: ignored for an empty username.
BasicAuth(r, username, password) ==
  IF username = <<>> THEN r ELSE [r EXCEPT !.basic = initBasicAuth(username, password)]

\* Request.BearerToken.
BearerToken(r, token) == [r EXCEPT !.bearerToken = token]

\* Request.Authorization: the key "Authorization" of the headers map written.
Authorization(r, token) ==
  [r EXCEPT !.headers = MapSet(r.headers, sAuthorization, StrV(sBearerSp \o token))]

\* Request.ContentType: the key "Content-Type" of the headers map written.
ContentType(r, contentType) ==
  [r EXCEPT !.headers = MapSet(r.headers, sContentType, StrV(contentType))]

\* Request.Query: one key of the query variables written.
Query(r, key, value) == [r EXCEPT !.queryVariables = MapSet(r.queryVariables, key, value)]

\* Request.setBaseURL.
setBaseURL(r, baseURL) == [r EXCEPT !.baseURL = baseURL]

\* Request.Client: ignored for a nil client.
Client(r, httpClient) == IF httpClient = Nil THEN r ELSE [r EXCEPT !.client = httpClient]

\* Request.Cookie: one key of the cookies map written.
Cookie(r, key, value) == [r EXCEPT !.cookies = MapSet(r.cookies, key, value)]

\* Mutant of Headers: the map handed in becomes the headers map.
Headers_assigned(r, m) == [r EXCEPT !.headers = m, !.aliases = @ \cup {"headers"}]

\* Request.Headers, Request.Cookies, Request.Queries: every key of m written.
Headers(r, m) == [r EXCEPT !.headers = m @@ @]
Cookies(r, m) == [r EXCEPT !.cookies = m @@ @]
Queries(r, m) == [r EXCEPT !.queryVariables = m @@ @]

\* New: the Client after construction.
New ==
  [baseURL |-> <<>>, logging |-> TRUE, client |-> Nil, retryCount |-> 0, retryWait |-> 0,
   timeout |-> 0, basic |-> emptyBasic, bearerToken |-> <<>>, options |-> <<>>,
   headers |-> EmptyMap, cookies |-> EmptyMap, queryVariables |-> EmptyMap]

\* The configuration methods of Client: SetBaseURL, Client, RetryCount,
\* RetryWait, Timeout, BasicAuth, BearerToken, Header, Cookie, Query.
ClientSetBaseURL(c, baseURL) == [c EXCEPT !.baseURL = baseURL]
ClientClient(c, httpClient) == [c EXCEPT !.client = httpClient]
ClientRetryCount(c, count) == IF count <= 1 THEN c ELSE [c EXCEPT !.retryCount = count]
ClientRetryWait(c, wait) == IF wait <= 0 THEN c ELSE [c EXCEPT !.retryWait = wait]
ClientTimeout(c, timeout) == IF timeout <= 0 THEN c ELSE [c EXCEPT !.timeout = timeout]
ClientBasicAuth(c, username, password) ==
  IF username = <<>> THEN c ELSE [c EXCEPT !.basic = initBasicAuth(username, password)]
ClientBearerToken(c, token) == [c EXCEPT !.bearerToken = token]
ClientHeader(c, key, value) ==
  [c EXCEPT !.headers = MapSet(c.headers, key, StrV(convertString(value)))]
ClientCookie(c, key, value) ==
  [c EXCEPT !.cookies = MapSet(c.cookies, key, StrV(convertString(value)))]
ClientQuery(c, key, value) ==
  [c EXCEPT !.queryVariables = MapSet(c.queryVariables, key, value)]

\* Client.R: a Request made by R and configured from the fields of the
\* Client through the Request's own configuration methods.
ClientR(c, ctx) ==
  LET r1 == Queries(Cookies(Headers(Client(setBaseURL(R(ctx), c.baseURL), c.client),
                                    c.headers), c.cookies), c.queryVariables)
      r2 == Timeout(RetryWait(RetryCount(r1, c.retryCount), c.retryWait), c.timeout)
  IN Options(BearerToken(BasicAuth(r2, c.basic.username, c.basic.password), c.bearerToken),
             c.options)

\* NewFormUrlEncodedWriter: the encoder after construction.
NewFormUrlEncodedWriter == [values |-> EmptyMap]

\* Mutant of FormUrlEncodedSet: the value is added to those of the key.
FormUrlEncodedSet_added(w, key, value) ==
  [w EXCEPT !.values =
     MapSet(w.values, key,
            Append(IF key \in DOMAIN w.values THEN w.values[key] ELSE <<>>, value))]

\* formUrlEncodedWriter.Set: url.Values.Set, the one value of the key.
FormUrlEncodedSet(w, key, value) == [w EXCEPT !.values = MapSet(w.values, key, <<value>>)]

\* formUrlEncodedWriter.Get: url.Values.Get, the first value of the key or "".
FormUrlEncodedGet(w, key) ==
  IF key \in DOMAIN w.values /\ w.values[key] # <<>> THEN w.values[key][1] ELSE <<>>

\* formUrlEncodedWriter.Delete: url.Values.Del.
FormUrlEncodedDelete(w, key) ==
  [w EXCEPT !.values = [k \in DOMAIN w.values \ {key} |-> w.values[k]]]

\* formUrlEncodedWriter.Has: url.Values.Has.
FormUrlEncodedHas(w, key) == key \in DOMAIN w.values

\* formUrlEncodedWriter.Reader: what the reader it returns reads.
FormUrlEncodedReader(w) == Encode(w.values)

\* NewBytesWriter: the encoder after construction; buffer holds the bytes of
\* the bytes.Buffer that have not been read yet.
NewBytesWriter == [buffer |-> <<>>, contentType |-> sOctetStream]

\* errorx.Wrap as deferred by Write, on the error Write is about to return: a
\* nil error stays nil, another one becomes a BytesWriterWrite error.
wrapWrite(err) == IF err = Nil THEN Nil ELSE Err("bytes_writer.write")

\* Mutant of BytesWrite: the bytes written replace those of the buffer.
BytesWrite_replaced(w, bytes) ==
  [writer |-> [w EXCEPT !.buffer = bytes], n |-> Len(bytes), err |-> wrapWrite(Nil)]

\* bytesBuffer.Write: bytes.Buffer.Write appends, and returns the length
\* written and a nil error; [writer, n, err].
BytesWrite(w, bytes) ==
  [writer |-> [w EXCEPT !.buffer = @ \o bytes], n |-> Len(bytes), err |-> wrapWrite(Nil)]

\* bytesBuffer.ContentType, SetContentType, Bytes.
BytesContentType(w) == w.contentType
BytesSetContentType(w, contentType) == [w EXCEPT !.contentType = contentType]
BytesBytes(w) == w.buffer

\* bytesBuffer.Reader read to the end: the bytes.Buffer itself is the reader,
\* so what is read leaves the buffer; [writer, data].
BytesReader(w) == [writer |-> [w EXCEPT !.buffer = <<>>], data |-> w.buffer]

\* CR LF, "--", and the texts multipart.Writer writes into the header of a
\* part: 'Content-Disposition: form-data; name="', '"; filename="' and
\* 'Content-Type: application/octet-stream'.
sCRLF == <<13, 10>>
sDashDash == <<45, 45>>
sDispositionName == <<67, 111, 110, 116, 101, 110, 116, 45, 68, 105, 115, 112, 111, 115, 105, 116, 105, 111, 110, 58, 32, 102, 111, 114, 109, 45, 100, 97, 116, 97, 59, 32, 110, 97, 109, 101, 61, 34>>
sFilenameParam == <<34, 59, 32, 102, 105, 108, 101, 110, 97, 109, 101, 61, 34>>
sPartOctetStream == <<67, 111, 110, 116, 101, 110, 116, 45, 84, 121, 112, 101, 58, 32>> \o sOctetStream

\* NewFormData without an initial map: the encoder after construction. body
\* is the buffer; boundary and lastpart are the fields of the
\* multipart.Writer on it (the boundary, random in the code, is "b" here;
\* lastpart tells whether a part is open).
NewFormData == [body |-> <<>>, boundary |-> <<98>>, lastpart |-> FALSE]

\* multipart's escapeQuotes: a backslash and a double quote get a backslash
\* in front.
escapeQuotes(s) ==
  Flatten([k \in 1..Len(s) |-> IF s[k] \in {92, 34} THEN <<92, s[k]>> ELSE <<s[k]>>])

\* multipart.Writer.CreatePart with the given header lines, followed by the
\* write of the part's content.
writePart(fd, header, content) ==
  [fd EXCEPT !.body = @ \o (IF fd.lastpart THEN sCRLF ELSE <<>>) \o sDashDash \o fd.boundary
                        \o sCRLF \o header \o sCRLF \o content,
             !.lastpart = TRUE]

\* formData.Add: multipart.Writer.WriteField of the stringified value;
\* [writer, err].
FormDataAdd(fd, key, value) ==
  [writer |-> writePart(fd, sDispositionName \o escapeQuotes(key) \o <<34>> \o sCRLF,
                        convertString(value)),
   err |-> Nil]

\* formData.AddFile: multipart.Writer.CreateFormFile and the copy of the
\* file into the part; [writer, err].
FormDataAddFile(fd, name, fileName, file) ==
  [writer |-> writePart(fd, sDispositionName \o escapeQuotes(name) \o sFilenameParam
                              \o escapeQuotes(fileName) \o <<34>> \o sCRLF
                              \o sPartOctetStream \o sCRLF,
                        file),
   err |-> Nil]

RECURSIVE FormDataSet(_, _, _)
\* formData.Set: Add for every key of data, in the order the range over the
\* map takes; [writer, err].
FormDataSet(fd, data, order) ==
  IF order = <<>> THEN [writer |-> fd, err |-> Nil]
  ELSE FormDataSet(FormDataAdd(fd, Head(order), data[Head(order)]).writer, data, Tail(order))

\* formData.Boundary, ContentType and Buffer.
FormDataBoundary(fd) == fd.boundary
FormDataContentType(fd) == sMultipart \o fd.boundary
FormDataBuffer(fd) == fd.body

\* formData.Close: multipart.Writer.Close ends the open part and writes the
\* closing boundary line; [writer, err].
FormDataClose(fd) ==
  [writer |-> [fd EXCEPT !.body = @ \o sCRLF \o sDashDash \o fd.boundary \o sDashDash
                                    \o sCRLF,
                         !.lastpart = FALSE],
   err |-> Nil]

\* The Form-Data encoder fd as the body argument of an execution operation.
FormDataBody(fd) ==
  Body({"FormData"}, FormDataContentType(fd), FormDataClose(fd).err = Nil, TRUE,
       Data(FormDataBuffer(FormDataClose(fd).writer), <<>>, <<123, 125>>))

\* Mutant of dispatchKind: the Bytes assertion is tried before the Form-Data
\* one.
dispatchKind_bytesFirst(body) ==
  IF body = Nil THEN "none"
  ELSE IF "Bytes" \in body.caps THEN "Bytes"
  ELSE IF "FormData" \in body.caps THEN "FormData"
  ELSE IF "FormUrlEncoded" \in body.caps THEN "FormUrlEncoded"
  ELSE "JSON"

\* The variant of the type switch of initRequest that handles a body.
dispatchKind(body) ==
  IF body = Nil THEN "none"
  ELSE IF "FormData" \in body.caps THEN "FormData"
  ELSE IF "Bytes" \in body.caps THEN "Bytes"
  ELSE IF "FormUrlEncoded" \in body.caps THEN "FormUrlEncoded"
  ELSE "JSON"

\* The Request after the Content-Type write of the body dispatch.
dispatchHeader(r, body) ==
  LET kind == dispatchKind(body)
  IN IF kind \in {"FormData", "Bytes"}
       THEN Header(r, sContentType, StrV(body.contentType))
     ELSE IF kind = "FormUrlEncoded"
       THEN Header(r, sContentType, StrV(sFormUrlEncoded))
     ELSE r

\* The error the body dispatch stops with before http.NewRequest, or Nil.
dispatchErr(body) ==
  LET kind == dispatchKind(body)
  IN IF kind = "FormData" /\ ~body.closeOK THEN Err("formdata_writer.close")
     ELSE IF kind = "JSON" /\ ~body.jsonOK THEN Err("json.Marshal")
     ELSE Nil

\* The steps of the body dispatch, for the log of a materialization.
dispatchLog(body) ==
  LET kind == dispatchKind(body)
  IN <<"dispatch">> \o (IF kind = "FormData" THEN <<"Close">> ELSE <<>>)

\* The bytes handed to http.NewRequest as the body: Buffer() of a Form-Data
\* encoder, Reader() of a Bytes or Form-URL-Encoded encoder, the marshalled
\* JSON, or nothing.
bodySource(body) ==
  LET kind == dispatchKind(body)
  IN IF kind = "FormData" THEN body.data.buffer
     ELSE IF kind \in {"Bytes", "FormUrlEncoded"} THEN body.data.reader
     ELSE IF kind = "JSON" THEN body.data.json
     ELSE <<>>

\* http.NewRequest: the wire request, or Nil when the method or the URL is
\* rejected. Its context is the background context: the Request's ctx is not
\* handed over. RequestURI is left empty, as in every client request. id tells the objects of successive calls apart.
NewRequest(method, fullURL, body, id) ==
  LET m == IF method = <<>> THEN sGET ELSE method
  IN IF ~validMethod(m) \/ ~urlParseOK(fullURL) THEN Nil
     ELSE [id |-> id, method |-> m, url |-> pathOf(fullURL), rawQuery |-> rawQueryOf(fullURL),
           requestURI |-> <<>>, header |-> EmptyMap, ctx |-> "background",
           body |-> [kind |-> dispatchKind(body), data |-> bodySource(body)]]

RECURSIVE setQuery(_, _, _)
\* query.Set(key, convert.String(value)) for every key of keys.
setQuery(values, vars, keys) ==
  IF keys = <<>> THEN values
  ELSE setQuery(MapSet(values, Head(keys), <<convertString(vars[Head(keys)])>>),
                vars, Tail(keys))

\* The query step of initRequest: the URL's own query with every configured
\* query variable set, encoded again.
initQuery(r, req) ==
  [req EXCEPT !.rawQuery =
     Encode(setQuery(ParseQuery(req.rawQuery), r.queryVariables,
                     SortedKeys(DOMAIN r.queryVariables)))]

\* http.Header.Set.
HeaderSet(header, key, value) == MapSet(header, CanonicalMIMEHeaderKey(key), value)

\* http.Header.Get.
HeaderGet(header, key) ==
  IF CanonicalMIMEHeaderKey(key) \in DOMAIN header
  THEN header[CanonicalMIMEHeaderKey(key)] ELSE <<>>

\* Mutant of initAuth: the bearer token is looked at first.
initAuth_bearerFirst(r, req) ==
  IF r.bearerToken # <<>>
  THEN [req EXCEPT !.header = HeaderSet(@, sAuthorization, sBearerSp \o r.bearerToken)]
  ELSE IF r.basic # emptyBasic /\ r.basic.username # <<>>
  THEN [req EXCEPT !.header =
          HeaderSet(@, sAuthorization,
                    sBasicSp \o Base64(r.basic.username \o <<58>> \o r.basic.password))]
  ELSE req

\* Request.initAuth: basic auth when a username is stored, else the bearer
\* token when one is stored, else nothing.
initAuth(r, req) ==
  IF r.basic # emptyBasic /\ r.basic.username # <<>>
  THEN [req EXCEPT !.header =
          HeaderSet(@, sAuthorization,
                    sBasicSp \o Base64(r.basic.username \o <<58>> \o r.basic.password))]
  ELSE IF r.bearerToken # <<>>
  THEN [req EXCEPT !.header = HeaderSet(@, sAuthorization, sBearerSp \o r.bearerToken)]
  ELSE req

RECURSIVE applyHeaders(_, _, _)
\* The range loop over request.headers, in the order the map yields its keys.
applyHeaders(r, req, order) ==
  IF order = <<>> THEN req
  ELSE applyHeaders(r,
         [req EXCEPT !.header =
            HeaderSet(@, Head(order), convertString(r.headers[Head(order)]))],
         Tail(order))

\* http.Request.AddCookie: name=value appended to the Cookie header.
AddCookie(req, name, value) ==
  LET s == name \o <<61>> \o value
      c == HeaderGet(req.header, sCookie)
  IN [req EXCEPT !.header =
        HeaderSet(@, sCookie, IF c # <<>> THEN c \o <<59, 32>> \o s ELSE s)]

RECURSIVE applyCookies(_, _, _)
\* The range loop over request.cookies, in the order the map yields its keys.
applyCookies(r, req, order) ==
  IF order = <<>> THEN req
  ELSE applyCookies(r,
         AddCookie(req, Head(order), convertString(r.cookies[Head(order)])),
         Tail(order))

RECURSIVE applyOptions(_, _)
\* The mutation hooks, in list order. A hook is modelled by the header it
\* sets on the wire request.
applyOptions(req, opts) ==
  IF opts = <<>> THEN req
  ELSE applyOptions([req EXCEPT !.header = HeaderSet(@, Head(opts).key, Head(opts).value)],
                    Tail(opts))

\* The orders in which a range loop can yield the keys of map m.
Orders(m) ==
  {o \in [1..Cardinality(DOMAIN m) -> DOMAIN m] :
     \A a, b \in DOMAIN o : a # b => o[a] # o[b]}

\* Mutant of populate: the hooks run before the configured headers.
populate_hooksFirst(r, req, hdrOrder, ckOrder) ==
  applyCookies(r,
    applyHeaders(r, applyOptions(initAuth(r, initQuery(r, req)), r.options), hdrOrder),
    ckOrder)

\* The wire request after the steps that follow http.NewRequest.
populate(r, req, hdrOrder, ckOrder) ==
  applyOptions(
    applyCookies(r, applyHeaders(r, initAuth(r, initQuery(r, req)), hdrOrder), ckOrder),
    r.options)

\* Mutants of cached: a wire request is cached only once a response came
\* back; nothing is ever cached.
cached_whenAnswered(r) == r.req # Nil /\ r.resp # Nil
cached_never(r) == FALSE

\* The guard of initRequest: the wire request has been created already.
cached(r) == r.req # Nil

\* Request.initRequest: [request, err, log]. request is the Request afterwards
\* (its headers map written by the dispatch, its req set on success), err the
\* error returned or Nil, log the steps that ran. hdrOrder and ckOrder are the
\* orders in which the headers and cookies maps are ranged over, id the
\* identity of the wire request object if one is allocated.
initRequest(r, method, url, body, hdrOrder, ckOrder, id) ==
  IF cached(r) THEN [request |-> r, err |-> Nil, log |-> <<>>]
  ELSE
    LET fullURL == IF r.baseURL # <<>> THEN r.baseURL \o url ELSE url
        r1 == dispatchHeader(r, body)
        made == NewRequest(method, fullURL, body, id)
    IN IF dispatchErr(body) # Nil
         THEN [request |-> r1, err |-> dispatchErr(body), log |-> dispatchLog(body)]
       ELSE IF made = Nil
         THEN [request |-> r1, err |-> Err("http.NewRequest"),
               log |-> dispatchLog(body) \o <<"NewRequest">>]
       ELSE [request |-> [r1 EXCEPT !.req = populate(r1, made, hdrOrder, ckOrder)],
             err |-> Nil,
             log |-> dispatchLog(body)
                       \o <<"NewRequest", "query", "auth", "headers", "cookies", "options">>]

\* ------------------------------------------------------------------ state

VARIABLES
  request,    \* the Request object: its fields
  ctxState,   \* the contexts: [done, err] of the caller's and of the timeout context
  built,      \* how many wire requests http.NewRequest has allocated
  sentIds,    \* the ids of the wire requests handed to the transport
  streamRead, \* whether the body stream of the wire request has been read
  target,     \* the value of the export target
  pc,         \* per caller: where it is in retryDo
  args,       \* per caller: the arguments method, url, body of its call
  i,          \* per caller: the loop variable of retryDo
  ret,        \* per caller: what its call returned
  hist,       \* per caller: what its current call has done so far
  lastSet,    \* per header name: the value the latest configuration call gave it
  client,     \* the Client object: its fields
  derived,    \* whether the Request was obtained from the Client
  sibling,    \* another Request obtained from the Client: its fields, or Nil
  asked,      \* the setting and the value of the latest call that set it again on
              \* the Request obtained from the Client
  formUrlEncoded,  \* a Form-URL-Encoded encoder: its fields
  bytesBuffer,     \* a Bytes encoder: its fields
  formData,        \* a Form-Data encoder: its fields
  put,        \* per encoder: what its caller has put into it so far
  seen        \* per encoder: what its methods returned to the caller

\* The encoders and what their caller knows of them.
encoders == <<formUrlEncoded, bytesBuffer, formData, put, seen>>

vars ==
  <<request, ctxState, built, sentIds, streamRead, target, pc, args, i, ret, hist, lastSet,
    client, derived, sibling, asked, formUrlEncoded, bytesBuffer, formData, put, seen>>

\* "/a", "/a?k=v" and "://invalid"
uA == <<47, 97>>
uAQ == <<47, 97, 63, 107, 61, 118>>
uInvalid == <<58, 47, 47, 105, 110, 118, 97, 108, 105, 100>>

\* A Form-Data encoder (boundary "b"), one whose Close fails, a value
\* json.Marshal rejects and a value it accepts (the document 7).
bFormData == Body({"FormData"}, sMultipart \o <<98>>, TRUE, TRUE,
                  Data(<<45, 45, 98>>, <<>>, <<123, 125>>))
bFormDataBad == Body({"FormData"}, sMultipart \o <<98>>, FALSE, TRUE,
                     Data(<<45, 45, 98>>, <<>>, <<123, 125>>))
bJsonBad == Body({}, <<>>, TRUE, FALSE, Data(<<>>, <<>>, <<>>))
bJson == Body({}, <<>>, TRUE, TRUE, Data(<<>>, <<>>, <<55>>))

\* A Bytes encoder holding "R", a Form-URL-Encoded encoder holding "k=v", and
\* values of caller-defined types that satisfy two encoder interfaces at once:
\* FormDataWriter with BytesWriter, BytesWriter with FormUrlEncodedWriter (no
\* type satisfies FormDataWriter and FormUrlEncodedWriter: their Set methods
\* differ).
bBytes == Body({"Bytes"}, sOctetStream, TRUE, TRUE, Data(<<>>, <<82>>, <<123, 125>>))
bFormUrlEncoded ==
  Body({"FormUrlEncoded"}, <<>>, TRUE, TRUE, Data(<<>>, <<107, 61, 118>>, <<123, 125>>))
bFormDataBytes ==
  Body({"FormData", "Bytes"}, sMultipart \o <<98>>, TRUE, TRUE,
       Data(<<45, 45, 98>>, <<82>>, <<123, 125>>))
bBytesFormUrlEncoded ==
  Body({"Bytes", "FormUrlEncoded"}, <<120>>, TRUE, TRUE,
       Data(<<>>, <<82>>, <<123, 125>>))

\* What the callers of the retry specification pass.
ExecMethods == {sGET, sPOST}
ExecURLs == {uA, uInvalid}
ExecBodies == {Nil, bFormData}

\* What the transport can answer: an error, a response whose body cannot be
\* read, or a response with a status and a body.
TransportOutcomes ==
  {[kind |-> "error"],
   [kind |-> "response", status |-> 200, body |-> <<>>, readOK |-> FALSE]}
    \cup [kind : {"response"}, status : {200, 500}, body : {<<>>, <<55>>},
          readOK : {TRUE}]

noArgs == [method |-> <<>>, url |-> <<>>, body |-> Nil]
noRet == [resp |-> Nil, err |-> Nil]

\* The record of one call: n and wait, the retry count and the retry wait
\* when the call was made;
\* attempts, the calls of do; sent, the calls of the transport; sleeps, and
\* waited, the milliseconds slept in them; log,
\* the materialization steps run; outcomes, the result of each attempt;
\* lastErr, the error of the latest attempt; expired, the timeout deadline
\* passed while an attempt was in flight; canceledIn, where the call was past
\* its pre-flight check when the caller's context was canceled: before an
\* attempt, in one, or in a sleep; cancel, a deferred cancel of the
\* timeout context is pending; ctxAtCall, the state of the Request's context
\* when the call was made; fresh, the Request had no wire request then;
\* parse, the latest Parse the caller made on the Response returned: its
\* export argument, its error, and the target and the Response before it;
\* read, what the accessors of the Response returned to the caller;
\* answered, the transport calls that returned a response; closed, what Close
\* of each response body stream returned;
\* delivered, what the transport answered in the latest attempt.
noHist ==
  [n |-> 1, wait |-> 0, attempts |-> 0, sent |-> 0, sleeps |-> 0, waited |-> 0, log |-> <<>>,
   outcomes |-> <<>>,
   lastErr |-> Nil, expired |-> FALSE, canceledIn |-> "none", cancel |-> FALSE,
   ctxAtCall |-> [done |-> FALSE, err |-> FALSE], fresh |-> TRUE, parse |-> Nil,
   read |-> Nil, answered |-> 0, closed |-> <<>>,
   delivered |-> Nil]

\* The contexts a Request is created with: the background context, and a
\* caller's own implementation whose Err() is not nil although Done() is open
\* (errorContext of errors_test.go), or the reverse.
CallerContexts == [done : BOOLEAN, err : BOOLEAN]

\* What the caller has put into the encoders, and what their methods have
\* returned to it, before the first call.
noPut ==
  [form |-> EmptyMap, written |-> <<>>, contentType |-> Nil, read |-> FALSE,
   fields |-> <<>>, closes |-> 0]
noSeen ==
  [reader |-> Nil, before |-> Nil, call |-> Nil, write |-> Nil, bytesCall |-> Nil,
   bytesRead |-> Nil, formCall |-> Nil]

Init ==
  /\ request = R("caller")
  /\ ctxState \in {[caller |-> c, timeout |-> [done |-> FALSE, err |-> FALSE]] :
                     c \in CallerContexts}
  /\ built = 0
  /\ sentIds = {}
  /\ streamRead = FALSE
  /\ target = Nil
  /\ pc = [p \in Procs |-> "idle"]
  /\ args = [p \in Procs |-> noArgs]
  /\ i = [p \in Procs |-> 0]
  /\ ret = [p \in Procs |-> noRet]
  /\ hist = [p \in Procs |-> noHist]
  /\ lastSet = EmptyMap
  /\ client = New
  /\ derived = FALSE
  /\ asked = [setting |-> "none"]
  /\ sibling = Nil
  /\ formUrlEncoded = NewFormUrlEncodedWriter
  /\ bytesBuffer = NewBytesWriter
  /\ formData = NewFormData
  /\ put = noPut
  /\ seen = noSeen

\* No execution call has been made yet: the Request is being configured.
Configuring == \A p \in Procs : pc[p] = "idle"

\* ---------------------------------------------------------- configuration

\* The header a configuration call names, with the value it gives.
Names(key, value) == CanonicalMIMEHeaderKey(key) :> value

\* The Client after the Request was left as r by a call that may have written
\* its maps: a map object the Request shares with the Client has the same
\* content for both.
sharedWrite(c, r) ==
  [c EXCEPT !.headers = IF "headers" \in r.aliases THEN r.headers ELSE @,
            !.cookies = IF "cookies" \in r.aliases THEN r.cookies ELSE @,
            !.queryVariables =
               IF "queryVariables" \in r.aliases THEN r.queryVariables ELSE @]

\* The Request s, obtained from the Client as well, once the Client is c.
sharedRead(s, c) ==
  IF s = Nil THEN s
  ELSE [s EXCEPT !.headers = IF "headers" \in s.aliases THEN c.headers ELSE @,
                 !.cookies = IF "cookies" \in s.aliases THEN c.cookies ELSE @,
                 !.queryVariables =
                    IF "queryVariables" \in s.aliases THEN c.queryVariables ELSE @]

\* What a call that leaves the Request as r does to the Client and to the
\* other Request obtained from it.
MapsWritten(r) ==
  /\ client' = sharedWrite(client, r)
  /\ sibling' = sharedRead(sibling, sharedWrite(client, r))

\* A configuration method called on the Request, r being the Request it
\* leaves and written the headers the call named, with their values.
Configure(r, written) ==
  /\ Configuring
  /\ request' = r
  /\ lastSet' = written @@ lastSet
  /\ MapsWritten(r)
  /\ UNCHANGED <<ctxState, built, sentIds, streamRead, target, pc, args, i, ret, hist,
                 derived, asked, encoders>>

RECURSIVE namesIn(_, _)
\* The headers named by Headers(m), ranging over m in the given order.
namesIn(m, order) ==
  IF order = <<>> THEN EmptyMap
  ELSE Names(order[Len(order)], convertString(m[order[Len(order)]]))
         @@ namesIn(m, SubSeq(order, 1, Len(order) - 1))

\* A configuration method called on the Client, c being the Client it leaves.
\* The Client is configured before a Request is obtained from it.
ClientConfigure(c) ==
  /\ Configuring
  /\ ~derived
  /\ client' = c
  /\ UNCHANGED <<request, ctxState, built, sentIds, streamRead, target, pc, args, i, ret,
                 hist, lastSet, derived, sibling, asked, encoders>>

\* Client.R is called and its Request takes the place of the Request.
Derive ==
  /\ Configuring
  /\ ~derived
  /\ request' = ClientR(client, "caller")
  /\ derived' = TRUE
  /\ \E order \in Orders(client.headers) : lastSet' = namesIn(client.headers, order)
  /\ UNCHANGED <<ctxState, built, sentIds, streamRead, target, pc, args, i, ret, hist,
                 client, sibling, asked, encoders>>

\* Client.R called once more, while no execution call is in progress: another
\* Request of the same Client.
DeriveSibling ==
  /\ derived
  /\ sibling = Nil
  /\ \A p \in Procs : pc[p] \in {"idle", "done"}
  /\ sibling' = ClientR(client, "caller")
  /\ UNCHANGED <<request, ctxState, built, sentIds, streamRead, target, pc, args, i, ret,
                 hist, lastSet, client, derived, asked, encoders>>

\* A configuration method called, with the given value, on the Request
\* obtained from the Client, r being the Request it leaves.
Override(setting, value, r) ==
  /\ Configuring
  /\ derived
  /\ request' = r
  /\ asked' = [setting |-> setting, value |-> value]
  /\ MapsWritten(r)
  /\ UNCHANGED <<ctxState, built, sentIds, streamRead, target, pc, args, i, ret, hist,
                 lastSet, derived, encoders>>

\* A configuration method called between two execution calls on a Request
\* that has its wire request, r being the Request it leaves and written the
\* headers the call named.
Reconfigure(r, written) ==
  /\ \A p \in Procs : pc[p] \in {"idle", "done"}
  /\ request.req # Nil
  /\ request' = r
  /\ lastSet' = written @@ lastSet
  /\ MapsWritten(r)
  /\ UNCHANGED <<ctxState, built, sentIds, streamRead, target, pc, args, i, ret, hist,
                 derived, asked, encoders>>

\* A configuration method called with an argument it does not accept, r being
\* the Request it leaves; the Request before and after the call is kept.
Invalid(setting, r) ==
  /\ Configuring
  /\ request' = r
  /\ asked' = [setting |-> setting, value |-> [before |-> request, after |-> r]]
  /\ MapsWritten(r)
  /\ UNCHANGED <<ctxState, built, sentIds, streamRead, target, pc, args, i, ret, hist,
                 lastSet, derived, encoders>>

\* ------------------------------------------------------------- execution

\* Mutant of wrapErr: the error is returned as it is.
wrapErr_unwrapped(err, a) == err

\* The deferred wrap of retryDo: a non-nil error is wrapped with
\* ErrRequestRetryDo and the call's method, url and body flag.

wrapErr(err, a) ==
  IF err = Nil THEN Nil
  ELSE [kind |-> "request.retry_do", cause |-> err, method |-> a.method,
        url |-> a.url, body |-> a.body # Nil]

\* Mutant of preflightErr: only Done() is consulted, not Err().
preflightErr_doneOnly(c) ==
  IF c.done
    THEN IF c.err THEN Err("context.canceled_and_has_error") ELSE Err("context.canceled")
  ELSE Nil

\* Mutant of preflightErr: the two errors of a canceled context exchanged.
preflightErr_kindsSwapped(c) ==
  IF c.done
    THEN IF c.err THEN Err("context.canceled") ELSE Err("context.canceled_and_has_error")
  ELSE IF c.err THEN Err("ctx.Err")
  ELSE Nil

\* The pre-flight check of retryDo on a context in state c: the error it
\* returns, or Nil.
preflightErr(c) ==
  IF c.done
    THEN IF c.err THEN Err("context.canceled_and_has_error") ELSE Err("context.canceled")
  ELSE IF c.err THEN Err("ctx.Err")
  ELSE Nil

\* Mutant of isLast: off by one.
isLast_offByOne(r, k) == k = r.retryCount

\* isLast of the retry loop.
isLast(r, k) == k = r.retryCount - 1

\* request.mx can be locked.
mxFree(r) == r.mx = 0

\* Mutant of Unlock: the lock is kept.
Unlock_forgotten(r) == r

\* The deferred request.mx.Unlock().
Unlock(r) == [r EXCEPT !.mx = 0]

\* A caller enters an execution operation (Do or a verb) with its arguments.
Call(p, method, url, body) ==
  /\ UNCHANGED <<lastSet, client, derived, sibling, asked, encoders>>
  /\ pc[p] \in {"idle", "done"}
  /\ pc' = [pc EXCEPT ![p] = "lock"]
  /\ args' = [args EXCEPT ![p] = [method |-> method, url |-> url, body |-> body]]
  /\ i' = [i EXCEPT ![p] = 0]
  /\ ret' = [ret EXCEPT ![p] = noRet]
  /\ hist' = [hist EXCEPT ![p] = [noHist EXCEPT !.ctxAtCall = ctxState[request.ctx],
                                                !.n = request.retryCount,
                                                !.wait = request.retryWait,
                                                !.fresh = (request.req = Nil)]]
  /\ UNCHANGED <<request, ctxState, built, sentIds, streamRead, target>>

\* request.mx.Lock().
Lock(p) ==
  /\ UNCHANGED <<lastSet, client, derived, sibling, asked, encoders>>
  /\ pc[p] = "lock"
  /\ mxFree(request)
  /\ request' = [request EXCEPT !.mx = p]
  /\ pc' = [pc EXCEPT ![p] = "preflight"]
  /\ UNCHANGED <<ctxState, built, sentIds, streamRead, target, args, i, ret, hist>>

\* Mutant of Exit: the deferred cancel of the timeout context is missing.
Exit_noCancel(p, r, cs, h, resp, err) ==
  /\ request' = Unlock(r)
  /\ ctxState' = cs
  /\ ret' = [ret EXCEPT ![p] = [resp |-> resp, err |-> wrapErr(err, args[p])]]
  /\ pc' = [pc EXCEPT ![p] = "done"]
  /\ hist' = [hist EXCEPT ![p] = [h EXCEPT !.cancel = FALSE]]

\* The return of retryDo with (resp, err), r, cs and h being the Request, the
\* contexts and the call's record at that point: the deferred cancel, the
\* deferred Unlock and the deferred wrap run.
Exit(p, r, cs, h, resp, err) ==
  /\ request' = Unlock(r)
  /\ ctxState' = IF h.cancel
                   THEN [cs EXCEPT !.timeout = [done |-> TRUE, err |-> TRUE]]
                   ELSE cs
  /\ ret' = [ret EXCEPT ![p] = [resp |-> resp, err |-> wrapErr(err, args[p])]]
  /\ pc' = [pc EXCEPT ![p] = "done"]
  /\ hist' = [hist EXCEPT ![p] = [h EXCEPT !.cancel = FALSE]]

\* The pre-flight check and, when it passes, the timeout context and the
\* entry of the retry loop, which is left at once with (request.response, nil)
\* when its condition 0 < retryCount fails.
Preflight(p) ==
  /\ UNCHANGED <<lastSet, client, derived, sibling, asked, encoders>>
  /\ pc[p] = "preflight"
  /\ LET e == preflightErr(ctxState[request.ctx])
     IN IF e # Nil
          THEN Exit(p, request, ctxState, hist[p], Nil, e)
        ELSE LET timed == request.timeout > 0
                 r == IF timed THEN [request EXCEPT !.ctx = "timeout"] ELSE request
                 cs == IF timed
                         THEN [ctxState EXCEPT !.timeout = [done |-> FALSE, err |-> FALSE]]
                         ELSE ctxState
                 h == IF timed THEN [hist[p] EXCEPT !.cancel = TRUE] ELSE hist[p]
             IN IF 0 < request.retryCount
                  THEN /\ pc' = [pc EXCEPT ![p] = "attempt"]
                       /\ request' = r
                       /\ ctxState' = cs
                       /\ hist' = [hist EXCEPT ![p] = h]
                       /\ UNCHANGED ret
                  ELSE Exit(p, r, cs, h, r.response, Nil)
  /\ UNCHANGED <<built, sentIds, streamRead, target, args, i>>

\* Mutant of loopDecision: the last iteration returns before looking at err.
loopDecision_lastFirst(r, k, err) ==
  IF isLast(r, k) THEN "return"
  ELSE IF err = Nil THEN "break"
  ELSE "sleep"

\* Mutant of loopDecision: the loop looks at the Request's context after each
\* attempt and returns when it is done.
loopDecision_ctxChecked(r, k, err) ==
  IF ctxState[r.ctx].done THEN "return"
  ELSE IF err = Nil THEN "break"
  ELSE IF isLast(r, k) THEN "return"
  ELSE "sleep"

\* The body of the retry loop after do returned err in iteration k: break and
\* return the Response, return the error, or sleep and continue.

loopDecision(r, k, err) ==
  IF err = Nil THEN "break"
  ELSE IF isLast(r, k) THEN "return"
  ELSE "sleep"

\* The retry loop after do returned err in iteration i[p].
AfterDo(p, r, h0, err) ==
  LET h == [h0 EXCEPT !.lastErr = err,
                      !.outcomes = Append(@, IF err = Nil THEN "ok" ELSE "fail")]
      d == loopDecision(r, i[p], err)
  IN IF d = "break" THEN Exit(p, r, ctxState, h, r.response, Nil)
     ELSE IF d = "return" THEN Exit(p, r, ctxState, h, Nil, err)
     ELSE /\ pc' = [pc EXCEPT ![p] = "sleep"]
          /\ request' = r
          /\ hist' = [hist EXCEPT ![p] = h]
          /\ UNCHANGED <<ctxState, ret>>

\* do, up to the call of the transport: initRequest, then client.Do is
\* entered with the wire request.
Attempt(p) ==
  /\ UNCHANGED <<lastSet, derived, asked, formUrlEncoded, bytesBuffer, seen>>
  /\ pc[p] = "attempt"
  /\ \E ho \in Orders(dispatchHeader(request, args[p].body).headers),
        co \in Orders(request.cookies) :
       LET res == initRequest(request, args[p].method, args[p].url, args[p].body,
                              ho, co, built + 1)
           made == request.req = Nil /\ res.request.req # Nil
           h == [hist[p] EXCEPT !.attempts = @ + 1, !.log = @ \o res.log]
       IN /\ built' = IF made THEN built + 1 ELSE built
          /\ MapsWritten(res.request)
          /\ formData' = IF /\ args[p].body = FormDataBody(formData)
                            /\ \E k \in 1..Len(res.log) : res.log[k] = "Close"
                           THEN FormDataClose(formData).writer
                         ELSE formData
          /\ put' = IF /\ args[p].body = FormDataBody(formData)
                       /\ \E k \in 1..Len(res.log) : res.log[k] = "Close"
                      THEN [put EXCEPT !.closes = @ + 1]
                    ELSE put
          /\ IF res.err # Nil
               THEN /\ AfterDo(p, res.request, h, res.err)
                    /\ UNCHANGED <<sentIds, streamRead>>
             ELSE /\ request' = res.request
                  /\ hist' = [hist EXCEPT ![p] = [h EXCEPT !.sent = @ + 1]]
                  /\ sentIds' = sentIds \cup {res.request.req.id}
                  /\ streamRead' = (streamRead \/ res.request.req.body.kind # "none")
                  /\ pc' = [pc EXCEPT ![p] = "inflight"]
                  /\ UNCHANGED <<ctxState, ret>>
  /\ UNCHANGED <<target, args, i>>

\* json.Unmarshal, for the documents of this model: a document is accepted
\* when it is a JSON number written in digits (no leading zero), and the
\* value decoded is the digits; every other input, the empty one included,
\* is rejected.
jsonValid(b) ==
  /\ Len(b) > 0
  /\ \A k \in 1..Len(b) : IsDigit(b[k])
  /\ (Len(b) > 1 => b[1] # 48)

\* newParseResponseBodyError.
newParseResponseBodyError(url, code, blob) ==
  [kind |-> "response.parse_body", data |-> [url |-> url, code |-> code, blob |-> blob]]

\* Mutant of Parse: the document decoded is added to what the target holds.
Parse_appending(r, response, export, tgt) ==
  IF response.bodyBlob = Nil THEN [err |-> Nil, target |-> tgt]
  ELSE IF export # Ptr
    THEN [err |-> Err("reflectx.check_export"), target |-> tgt]
  ELSE IF ~jsonValid(response.bodyBlob.bytes)
    THEN [err |-> newParseResponseBodyError(r.req.requestURI, response.status,
                                            response.bodyBlob.bytes),
          target |-> tgt]
  ELSE [err |-> Nil,
        target |-> Blob((IF tgt = Nil THEN <<>> ELSE tgt.bytes) \o response.bodyBlob.bytes)]

\* Mutant of Parse: an empty body is skipped like a missing one.
Parse_emptySkipped(r, response, export, tgt) ==
  IF response.bodyBlob = Nil \/ response.bodyBlob.bytes = <<>>
    THEN [err |-> Nil, target |-> tgt]
  ELSE IF export # Ptr
    THEN [err |-> Err("reflectx.check_export"), target |-> tgt]
  ELSE IF ~jsonValid(response.bodyBlob.bytes)
    THEN [err |-> newParseResponseBodyError(r.req.requestURI, response.status,
                                            response.bodyBlob.bytes),
          target |-> tgt]
  ELSE [err |-> Nil, target |-> Blob(response.bodyBlob.bytes)]

\* Response.Parse(export) on a target holding tgt, r being the Request the
\* Response points to: [err, target]. export is Nil, Ptr or NonPtr; the error
\* for an export that is no pointer is the one reflectx.CheckExport returns.
Parse(r, response, export, tgt) ==
  IF response.bodyBlob = Nil THEN [err |-> Nil, target |-> tgt]
  ELSE IF export # Ptr
    THEN [err |-> Err("reflectx.check_export"), target |-> tgt]
  ELSE IF ~jsonValid(response.bodyBlob.bytes)
    THEN [err |-> newParseResponseBodyError(r.req.requestURI, response.status,
                                            response.bodyBlob.bytes),
          target |-> tgt]
  ELSE [err |-> Nil, target |-> Blob(response.bodyBlob.bytes)]

\* newResponse.
newResponse(p, attempt, raw) ==
  [by |-> <<p, attempt>>, status |-> raw.status, bodyBlob |-> Nil]

\* httpx.IsFailureCode: the status codes from 400 to 599.
IsFailureCode(code) == code >= 400 /\ code <= 599

\* Mutant of IsFailure: only server errors count.
IsFailure_serverOnly(response) == response.status >= 500

\* Response.IsFailure.
IsFailure(response) == IsFailureCode(response.status)

\* The context of the wire request is done.
wireCtxDone(req, cs) == req.ctx # "background" /\ cs[req.ctx].done

\* Mutant of transportFailed: a response with a server-error status fails the
\* attempt.
transportFailed_onStatus(out, req, cs) ==
  \/ out.kind = "error"
  \/ wireCtxDone(req, cs)
  \/ (out.kind = "response" /\ out.status >= 500)

\* client.Do returned a non-nil error: the transport failed, or the context
\* of the wire request is done.
transportFailed(out, req, cs) == out.kind = "error" \/ wireCtxDone(req, cs)

\* Mutant of exportErr: the error of Parse is returned by do.
exportErr_propagated(r, parseErr) == IF r.export # Nil THEN parseErr ELSE Nil

\* What do returns once the body has been read: nil, whatever Parse into the
\* export target returned.
exportErr(r, parseErr) == Nil

\* What Close of the response body stream of the answer out returns.
closeErr(out) ==
  IF "closeOK" \in DOMAIN out /\ ~out.closeOK THEN Err("body.Close") ELSE Nil

\* Mutant of deferredClose: err is the named result of do, so what the
\* deferred function assigns to it is returned.
deferredClose_namedResult(err, closed) == closed

\* What do returns, err being the operand of its return statement and closed
\* what the deferred Body.Close returned: the deferred function assigns to the
\* local variable err after the result has been set.
deferredClose(err, closed) == err

\* client.Do returns, and do runs to its end: on an error of the transport
\* the attempt fails; otherwise the Response is built, the body read and
\* closed, and the export target parsed into.
TransportReturn(p, out) ==
  /\ UNCHANGED <<lastSet, client, derived, sibling, asked, encoders>>
  /\ pc[p] = "inflight"
  /\ LET failed == transportFailed(out, request.req, ctxState)
         raw == [status |-> out.status, body |-> out.body, closed |-> TRUE]
         fresh == newResponse(p, hist[p].attempts, raw)
         full == [fresh EXCEPT !.bodyBlob = Blob(out.body)]
         parsed == Parse(request, full, request.export, target)
         h0 == [hist[p] EXCEPT !.delivered = out]
         h == IF failed THEN h0
              ELSE [h0 EXCEPT !.answered = @ + 1, !.closed = Append(@, closeErr(out))]
     IN IF failed
          THEN /\ AfterDo(p, [request EXCEPT !.resp = Nil], h, Err("transport"))
               /\ UNCHANGED target
        ELSE IF ~out.readOK
          THEN /\ AfterDo(p, [request EXCEPT !.resp = raw, !.response = fresh], h,
                          deferredClose(Err("io.ReadAll"), closeErr(out)))
               /\ UNCHANGED target
        ELSE /\ AfterDo(p, [request EXCEPT !.resp = raw, !.response = full], h,
                        deferredClose(exportErr(request, parsed.err), closeErr(out)))
             /\ target' = IF request.export # Nil THEN parsed.target ELSE target
  /\ UNCHANGED <<built, sentIds, streamRead, args, i>>

\* time.Sleep(request.retryWait) returns and the loop continues: i++, and
\* the loop is left with (request.response, nil) when i < retryCount fails.
Sleep(p) ==
  /\ UNCHANGED <<lastSet, client, derived, sibling, asked, encoders>>
  /\ pc[p] = "sleep"
  /\ i' = [i EXCEPT ![p] = @ + 1]
  /\ LET h == [hist[p] EXCEPT !.sleeps = @ + 1, !.waited = @ + request.retryWait]
     IN IF i[p] + 1 < request.retryCount
          THEN /\ pc' = [pc EXCEPT ![p] = "attempt"]
               /\ hist' = [hist EXCEPT ![p] = h]
               /\ UNCHANGED <<request, ctxState, ret>>
        ELSE Exit(p, request, ctxState, h, request.response, Nil)
  /\ UNCHANGED <<built, sentIds, streamRead, target, args>>

\* The caller of p calls Parse(export) on the Response its call returned.
ParseCall(p, export) ==
  /\ pc[p] = "done"
  /\ ret[p].resp # Nil
  /\ LET res == Parse(request, ret[p].resp, export, target)
     IN /\ target' = res.target
        /\ hist' = [hist EXCEPT ![p].parse =
                      [export |-> export, err |-> res.err, before |-> target,
                       response |-> ret[p].resp]]
  /\ UNCHANGED <<request, ctxState, built, sentIds, streamRead, pc, args, i, ret, lastSet,
                 client, derived, sibling, asked, encoders>>

\* Response.Raw, Response.StatusCode and Response.BodyRaw: the fields of the
\* Response, the captured exchange being named by the attempt that got it.
Raw(response) == response.by
StatusCode(response) == response.status
BodyRaw(response) == response.bodyBlob

\* The caller of p calls the accessors of the Response its call returned.
Access(p) ==
  /\ pc[p] = "done"
  /\ ret[p].resp # Nil
  /\ hist' = [hist EXCEPT ![p].read =
                [raw |-> Raw(ret[p].resp), statusCode |-> StatusCode(ret[p].resp),
                 bodyRaw |-> BodyRaw(ret[p].resp), isFailure |-> IsFailure(ret[p].resp)]]
  /\ UNCHANGED <<request, ctxState, built, sentIds, streamRead, target, pc, args, i, ret,
                 lastSet, client, derived, sibling, asked, encoders>>

\* ------------------------------------------------------------ environment

\* The caller's context is canceled.
CancelCaller ==
  /\ UNCHANGED <<lastSet, client, derived, sibling, asked, encoders>>
  /\ ~ctxState.caller.done
  /\ ctxState' = [ctxState EXCEPT !.caller = [done |-> TRUE, err |-> TRUE]]
  /\ hist' = [p \in Procs |->
                IF pc[p] \in {"attempt", "inflight", "sleep"}
                  THEN [hist[p] EXCEPT !.canceledIn = pc[p]]
                  ELSE hist[p]]
  /\ UNCHANGED <<request, built, sentIds, streamRead, target, pc, args, i, ret>>

\* The deadline of the timeout context passes.
DeadlineExpires ==
  /\ UNCHANGED <<lastSet, client, derived, sibling, asked, encoders>>
  /\ request.ctx = "timeout"
  /\ ~ctxState.timeout.done
  /\ ctxState' = [ctxState EXCEPT !.timeout = [done |-> TRUE, err |-> TRUE]]
  /\ hist' = [p \in Procs |->
                IF pc[p] = "inflight" THEN [hist[p] EXCEPT !.expired = TRUE] ELSE hist[p]]
  /\ UNCHANGED <<request, built, sentIds, streamRead, target, pc, args, i, ret>>

\* ---------------------------------------------------------- specification

Next ==
  \/ \E n \in 0..MaxRetry : Configure(RetryCount(request, n), EmptyMap)
  \/ \E d \in 0..MaxTimeout : Configure(Timeout(request, d), EmptyMap)
  \/ \E m \in ExecMethods, u \in ExecURLs, b \in ExecBodies : Call(1, m, u, b)
  \/ \E p \in Procs : Lock(p)
  \/ \E p \in Procs : Preflight(p)
  \/ \E p \in Procs : Attempt(p)
  \/ \E p \in Procs, out \in TransportOutcomes : TransportReturn(p, out)
  \/ \E p \in Procs : Sleep(p)
  \/ CancelCaller
  \/ DeadlineExpires

Spec == Init /\ [][Next]_vars

\* What the transport answers in the specification of concurrent callers.
ConcOutcomes ==
  {[kind |-> "error"],
   [kind |-> "response", status |-> 200, body |-> <<>>, readOK |-> TRUE]}

\* Two goroutines call execution operations on the one Request.
ConcNext ==
  \/ \E n \in 0..MaxRetry : Configure(RetryCount(request, n), EmptyMap)
  \/ \E d \in 0..MaxTimeout : Configure(Timeout(request, d), EmptyMap)
  \/ \E p \in Procs, u \in ExecURLs : Call(p, sGET, u, Nil)
  \/ \E p \in Procs : Lock(p)
  \/ \E p \in Procs : Preflight(p)
  \/ \E p \in Procs : Attempt(p)
  \/ \E p \in Procs, out \in ConcOutcomes : TransportReturn(p, out)
  \/ \E p \in Procs : Sleep(p)
  \/ CancelCaller
  \/ DeadlineExpires

\* "content-type", "authorization", "X-H", and the values "x", "h", "u", "p", "t".
sContentTypeLower == <<99, 111, 110, 116, 101, 110, 116, 45, 116, 121, 112, 101>>
sAuthorizationLower == <<97, 117, 116, 104, 111, 114, 105, 122, 97, 116, 105, 111, 110>>
sXH == <<88, 45, 72>>
sx == <<120>>
sh == <<104>>
su == <<117>>
sp == <<112>>
st == <<116>>

\* What the caller of the configuration specification configures and passes:
\* header keys, hook lists (a hook sets X-H, Content-Type or Authorization on
\* the wire request) and bodies.
CfgKeys == {sContentType, sContentTypeLower}
CfgOptions ==
  {<<>>, <<[key |-> sXH, value |-> sh]>>, <<[key |-> sContentType, value |-> sh]>>,
   <<[key |-> sAuthorization, value |-> sh]>>}
CfgBodies ==
  {Nil, bJson, bFormData, bBytes, bFormUrlEncoded, bFormDataBytes, bBytesFormUrlEncoded}

\* One goroutine configures a Request and then executes it.
CfgNext ==
  \/ \E k \in CfgKeys : Configure(Header(request, k, StrV(sx)), Names(k, sx))
  \/ Configure(ContentType(request, sApplicationJson), Names(sContentType, sApplicationJson))
  \/ Configure(Authorization(request, st), Names(sAuthorization, sBearerSp \o st))
  \/ \E u \in {<<>>, su} : Configure(BasicAuth(request, u, sp), EmptyMap)
  \/ \E tk \in {<<>>, st} : Configure(BearerToken(request, tk), EmptyMap)
  \/ \E opts \in CfgOptions : Configure(Options(request, opts), EmptyMap)
  \/ \E b \in CfgBodies : Call(1, sPOST, uA, b)
  \/ \E p \in Procs : Lock(p)
  \/ \E p \in Procs : Preflight(p)
  \/ \E p \in Procs : Attempt(p)
  \/ \E p \in Procs, out \in ConcOutcomes : TransportReturn(p, out)

CfgSpec == Init /\ [][CfgNext]_vars

\* What the transport answers in the response specification: an error, a
\* response whose body cannot be read, or a response with status 200 or 500
\* and a body that is empty, the JSON document 7 or the text x.
RespOutcomes ==
  {[kind |-> "error"],
   [kind |-> "response", status |-> 200, body |-> <<>>, readOK |-> FALSE]}
    \cup [kind : {"response"}, status : {200, 500}, body : {<<>>, <<55>>, sx},
          readOK : {TRUE}]

\* One goroutine configures retries and an export target, executes the
\* Request and calls Parse on the Response returned.
RespNext ==
  \/ \E n \in 0..MaxRetry : Configure(RetryCount(request, n), EmptyMap)
  \/ \E e \in {Ptr, NonPtr} : Configure(Result(request, e), EmptyMap)
  \/ Call(1, sGET, uA, Nil)
  \/ \E p \in Procs : Lock(p)
  \/ \E p \in Procs : Preflight(p)
  \/ \E p \in Procs : Attempt(p)
  \/ \E p \in Procs, out \in RespOutcomes : TransportReturn(p, out)
  \/ \E p \in Procs : Sleep(p)
  \/ \E p \in Procs, e \in {Ptr, NonPtr} : ParseCall(p, e)
  \/ \E p \in Procs : Access(p)

RespSpec == Init /\ [][RespNext]_vars

\* The status codes of the status specification, and what the transport
\* answers there: a response with one of them and an empty body.
StatusCodes == 200..599
StatusOutcomes ==
  [kind : {"response"}, status : StatusCodes, body : {<<>>}, readOK : {TRUE}]

\* One goroutine executes a Request and gets a response of any status.
StatusNext ==
  \/ Call(1, sGET, uA, Nil)
  \/ \E p \in Procs : Lock(p)
  \/ \E p \in Procs : Preflight(p)
  \/ \E p \in Procs : Attempt(p)
  \/ \E p \in Procs, out \in StatusOutcomes : TransportReturn(p, out)

StatusSpec == Init /\ [][StatusNext]_vars

\* The keys under which the caller of the authorization specification sets a
\* header directly.
AuthKeys == {sAuthorization, sAuthorizationLower}

\* One goroutine configures the authorization of a Request and then executes
\* it.
AuthNext ==
  \/ \E k \in AuthKeys, v \in {sx, sh} : Configure(Header(request, k, StrV(v)), Names(k, v))
  \/ Configure(Authorization(request, sh), Names(sAuthorization, sBearerSp \o sh))
  \/ \E u \in {<<>>, su} : Configure(BasicAuth(request, u, sp), EmptyMap)
  \/ \E tk \in {<<>>, st} : Configure(BearerToken(request, tk), EmptyMap)
  \/ \E b \in {Nil, bJson} : Call(1, sGET, uA, b)
  \/ \E p \in Procs : Lock(p)
  \/ \E p \in Procs : Preflight(p)
  \/ \E p \in Procs : Attempt(p)
  \/ \E p \in Procs, out \in ConcOutcomes : TransportReturn(p, out)

AuthSpec == Init /\ [][AuthNext]_vars

\* The arguments the caller of the limits specification passes to RetryCount,
\* RetryWait (milliseconds) and Timeout.
LimitCounts == -1..MaxRetry
LimitWaits == {-1, 0, 50}
LimitTimeouts == -1..MaxTimeout

\* One goroutine sets the retry count, the retry wait and the timeout of the
\* Client and of the Request, made by R or obtained from the Client, and then
\* executes the Request.
LimitsNext ==
  \/ \E n \in LimitCounts : ClientConfigure(ClientRetryCount(client, n))
  \/ \E w \in LimitWaits : ClientConfigure(ClientRetryWait(client, w))
  \/ \E d \in LimitTimeouts : ClientConfigure(ClientTimeout(client, d))
  \/ Derive
  \/ \E n \in LimitCounts : Configure(RetryCount(request, n), EmptyMap)
  \/ \E w \in LimitWaits : Configure(RetryWait(request, w), EmptyMap)
  \/ \E d \in LimitTimeouts : Configure(Timeout(request, d), EmptyMap)
  \/ Call(1, sGET, uA, Nil)
  \/ \E p \in Procs : Lock(p)
  \/ \E p \in Procs : Preflight(p)
  \/ \E p \in Procs : Attempt(p)
  \/ \E p \in Procs, out \in ConcOutcomes : TransportReturn(p, out)
  \/ \E p \in Procs : Sleep(p)
  \/ CancelCaller

LimitsSpec == Init /\ [][LimitsNext]_vars

\* "k" and "v", and the values the caller of the client specification passes.
sk == <<107>>
sv == <<118>>
ClientCounts == {1, MaxRetry}
ClientWaits == {50, 100}
ClientTimeouts == 0..MaxTimeout
ClientUsers == {<<>>, su}
ClientTokens == {<<>>, st}

\* One goroutine configures a Client, obtains a Request from it and sets
\* settings again on that Request.
ClientNext ==
  \/ ClientConfigure(ClientSetBaseURL(client, uA))
  \/ ClientConfigure(ClientClient(client, [nil |-> FALSE]))
  \/ ClientConfigure(ClientHeader(client, sXH, StrV(sh)))
  \/ ClientConfigure(ClientCookie(client, sk, StrV(sv)))
  \/ ClientConfigure(ClientQuery(client, sk, StrV(sv)))
  \/ \E n \in ClientCounts : ClientConfigure(ClientRetryCount(client, n))
  \/ \E w \in ClientWaits : ClientConfigure(ClientRetryWait(client, w))
  \/ \E d \in ClientTimeouts : ClientConfigure(ClientTimeout(client, d))
  \/ \E u \in ClientUsers : ClientConfigure(ClientBasicAuth(client, u, sp))
  \/ \E tk \in ClientTokens : ClientConfigure(ClientBearerToken(client, tk))
  \/ Derive
  \/ \E n \in ClientCounts : Override("retryCount", n, RetryCount(request, n))
  \/ \E w \in ClientWaits : Override("retryWait", w, RetryWait(request, w))
  \/ \E d \in ClientTimeouts : Override("timeout", d, Timeout(request, d))
  \/ \E u \in ClientUsers :
       Override("basic", initBasicAuth(u, IF u = <<>> THEN <<>> ELSE sp),
                BasicAuth(request, u, IF u = <<>> THEN <<>> ELSE sp))
  \/ \E tk \in ClientTokens : Override("bearerToken", tk, BearerToken(request, tk))

ClientSpec == Init /\ [][ClientNext]_vars

\* "/a?j=1&j=2" and "/a?j=1&m=%", the key "a &" and the value "x&=".
uTwice == <<47, 97, 63, 106, 61, 49, 38, 106, 61, 50>>
uBadEscape == <<47, 97, 63, 106, 61, 49, 38, 109, 61, 37>>
sKeySpaceAmp == <<97, 32, 38>>
sValAmpEq == <<120, 38, 61>>

\* What the caller of the query specification passes: the URLs, and the keys
\* and values of Query.
QueryURLs == {uA, uAQ, uTwice, uBadEscape}
QueryKeys == {sk, sKeySpaceAmp}
QueryValues == {StrV(sv), StrV(sValAmpEq), IntV(7)}

\* One goroutine configures query parameters and executes the Request on a
\* URL that may hold a query of its own.
QueryNext ==
  \/ \E k \in QueryKeys, v \in QueryValues : Configure(Query(request, k, v), EmptyMap)
  \/ \E u \in QueryURLs : Call(1, sGET, u, Nil)
  \/ \E p \in Procs : Lock(p)
  \/ \E p \in Procs : Preflight(p)
  \/ \E p \in Procs : Attempt(p)
  \/ \E p \in Procs, out \in ConcOutcomes : TransportReturn(p, out)

QuerySpec == Init /\ [][QueryNext]_vars

\* The caller sets, on the Form-URL-Encoded encoder, the one value of a key.
SetForm(key, value) ==
  /\ formUrlEncoded' = FormUrlEncodedSet(formUrlEncoded, key, value)
  /\ put' = [put EXCEPT !.form = MapSet(put.form, key, value)]
  /\ UNCHANGED <<request, ctxState, built, sentIds, streamRead, target, pc, args, i, ret,
                 hist, lastSet, client, derived, sibling, asked, bytesBuffer, formData, seen>>

\* The caller deletes a key of the Form-URL-Encoded encoder.
DeleteForm(key) ==
  /\ formUrlEncoded' = FormUrlEncodedDelete(formUrlEncoded, key)
  /\ put' = [put EXCEPT !.form = [k \in DOMAIN put.form \ {key} |-> put.form[k]]]
  /\ UNCHANGED <<request, ctxState, built, sentIds, streamRead, target, pc, args, i, ret,
                 hist, lastSet, client, derived, sibling, asked, bytesBuffer, formData, seen>>

\* The caller calls Get or Has with a key.
AskForm(key) ==
  /\ \/ seen' = [seen EXCEPT !.call = [op |-> "Get", key |-> key, at |-> put.form,
                                       result |-> Blob(FormUrlEncodedGet(formUrlEncoded, key))]]
     \/ seen' = [seen EXCEPT !.call = [op |-> "Has", key |-> key, at |-> put.form,
                                       result |-> Blob(IF FormUrlEncodedHas(formUrlEncoded, key)
                                                         THEN <<1>> ELSE <<0>>)]]
  /\ UNCHANGED <<request, ctxState, built, sentIds, streamRead, target, pc, args, i, ret,
                 hist, lastSet, client, derived, sibling, asked, formUrlEncoded, bytesBuffer,
                 formData, put>>

\* The caller calls Reader() and reads what it returns to the end.
ReadForm ==
  /\ seen' = [seen EXCEPT
                !.reader = [data |-> FormUrlEncodedReader(formUrlEncoded), at |-> put.form],
                !.before = IF seen.reader = Nil THEN Nil ELSE Blob(seen.reader.data)]
  /\ UNCHANGED <<request, ctxState, built, sentIds, streamRead, target, pc, args, i, ret,
                 hist, lastSet, client, derived, sibling, asked, formUrlEncoded, bytesBuffer,
                 formData, put>>

\* The keys and values the caller of the form specification passes.
FormKeys == {sk, sKeySpaceAmp}
FormValues == {sv, sValAmpEq}

\* One goroutine uses a Form-URL-Encoded encoder.
FormNext ==
  \/ \E k \in FormKeys, v \in FormValues : SetForm(k, v)
  \/ \E k \in FormKeys : DeleteForm(k)
  \/ \E k \in FormKeys : AskForm(k)
  \/ ReadForm

FormSpec == Init /\ [][FormNext]_vars

\* The longest content the caller of the bytes specification writes.
MaxBytes == 3

\* The caller writes a slice to the Bytes encoder.
WriteBytes(bytes) ==
  /\ Len(put.written) + Len(bytes) <= MaxBytes
  /\ LET res == BytesWrite(bytesBuffer, bytes)
     IN /\ bytesBuffer' = res.writer
        /\ seen' = [seen EXCEPT !.write = [bytes |-> bytes, n |-> res.n, err |-> res.err]]
  /\ put' = [put EXCEPT !.written = @ \o bytes]
  /\ UNCHANGED <<request, ctxState, built, sentIds, streamRead, target, pc, args, i, ret,
                 hist, lastSet, client, derived, sibling, asked, formUrlEncoded, formData>>

\* The caller sets the content type of the Bytes encoder.
SetBytesContentType(contentType) ==
  /\ bytesBuffer' = BytesSetContentType(bytesBuffer, contentType)
  /\ put' = [put EXCEPT !.contentType = Blob(contentType)]
  /\ UNCHANGED <<request, ctxState, built, sentIds, streamRead, target, pc, args, i, ret,
                 hist, lastSet, client, derived, sibling, asked, formUrlEncoded, formData, seen>>

\* The caller calls Bytes() or ContentType().
AskBytes ==
  /\ \/ seen' = [seen EXCEPT !.bytesCall = [op |-> "Bytes", at |-> put,
                                            result |-> BytesBytes(bytesBuffer)]]
     \/ seen' = [seen EXCEPT !.bytesCall = [op |-> "ContentType", at |-> put,
                                            result |-> BytesContentType(bytesBuffer)]]
  /\ UNCHANGED <<request, ctxState, built, sentIds, streamRead, target, pc, args, i, ret,
                 hist, lastSet, client, derived, sibling, asked, formUrlEncoded, bytesBuffer,
                 formData, put>>

\* The caller calls Reader() and reads what it returns to the end.
ReadBytes ==
  /\ LET res == BytesReader(bytesBuffer)
     IN /\ bytesBuffer' = res.writer
        /\ seen' = [seen EXCEPT !.bytesRead = [at |-> put, data |-> res.data]]
  /\ put' = [put EXCEPT !.read = TRUE]
  /\ UNCHANGED <<request, ctxState, built, sentIds, streamRead, target, pc, args, i, ret,
                 hist, lastSet, client, derived, sibling, asked, formUrlEncoded, formData>>

\* One goroutine uses a Bytes encoder: it writes "R", "ST" or nothing, and
\* sets the content type "application/json" or "x".
BytesNext ==
  \/ \E b \in {<<>>, <<82>>, <<83, 84>>} : WriteBytes(b)
  \/ \E ct \in {sApplicationJson, sx} : SetBytesContentType(ct)
  \/ AskBytes
  \/ ReadBytes

BytesSpec == Init /\ [][BytesNext]_vars

\* The first index at which sub occurs in s, or 0.
indexOf(s, sub) ==
  LET ks == {k \in 1..(Len(s) - Len(sub) + 1) : SubSeq(s, k, k + Len(sub) - 1) = sub}
  IN IF ks = {} THEN 0 ELSE CHOOSE k \in ks : \A j \in ks : k <= j

\* strings.HasPrefix, and s without its first n bytes.
hasPrefix(s, pre) == Len(s) >= Len(pre) /\ SubSeq(s, 1, Len(pre)) = pre
drop(s, n) == SubSeq(s, n + 1, Len(s))

\* mime's tspecials: ( ) < > @ , ; : \ " / [ ] ? =
isTSpecial(c) == c \in {40, 41, 60, 62, 64, 44, 59, 58, 92, 34, 47, 91, 93, 63, 61}

RECURSIVE consumeQuoted(_, _)
\* mime.consumeValue on a quoted string, s following its opening quote: a
\* backslash in front of a tspecial is dropped, the closing quote ends the
\* value; [ok, value, rest].
consumeQuoted(s, acc) ==
  IF s = <<>> THEN [ok |-> FALSE, value |-> <<>>, rest |-> <<>>]
  ELSE IF s[1] = 34 THEN [ok |-> TRUE, value |-> acc, rest |-> Tail(s)]
  ELSE IF s[1] = 92 /\ Len(s) >= 2 /\ isTSpecial(s[2])
    THEN consumeQuoted(drop(s, 2), Append(acc, s[2]))
  ELSE IF s[1] \in {13, 10} THEN [ok |-> FALSE, value |-> <<>>, rest |-> <<>>]
  ELSE consumeQuoted(Tail(s), Append(acc, s[1]))

RECURSIVE parseParams(_, _)
\* mime.ParseMediaType on the parameters '; key="value"' that follow the
\* media type; [ok, params].
parseParams(s, m) ==
  IF s = <<>> THEN [ok |-> TRUE, params |-> m]
  ELSE IF ~hasPrefix(s, <<59, 32>>) THEN [ok |-> FALSE, params |-> m]
  ELSE LET rest == drop(s, 2)
           eq == IndexByte(rest, 61)
           q == consumeQuoted(drop(rest, eq + 1), <<>>)
       IN IF eq = 0 \/ Len(rest) < eq + 1 \/ rest[eq + 1] # 34 \/ ~q.ok
            THEN [ok |-> FALSE, params |-> m]
          ELSE parseParams(q.rest, MapSet(m, SubSeq(rest, 1, eq - 1), q.value))

\* "Content-Disposition: ", "form-data", "name" and "filename".
sDisposition == <<67, 111, 110, 116, 101, 110, 116, 45, 68, 105, 115, 112, 111, 115, 105, 116, 105, 111, 110, 58, 32>>
sFormDataType == <<102, 111, 114, 109, 45, 100, 97, 116, 97>>
sName == <<110, 97, 109, 101>>
sFilename == <<102, 105, 108, 101, 110, 97, 109, 101>>

\* The parameters of the Content-Disposition of a part whose header lines are
\* given, when it is a form-data one; otherwise no parameters.
dispositionParams(header) ==
  LET lines == Split(header, 10)
      ks == {k \in 1..Len(lines) : hasPrefix(lines[k], sDisposition)}
      line == lines[CHOOSE k \in ks : TRUE]
      v == SubSeq(line, Len(sDisposition) + 1, Len(line) - 1)
      ps == parseParams(drop(v, Len(sFormDataType)), EmptyMap)
  IN IF ks = {} THEN EmptyMap
     ELSE IF ~hasPrefix(v, sFormDataType) \/ ~ps.ok THEN EmptyMap
     ELSE ps.params

RECURSIVE filepathBase(_)
\* filepath.Base on the server: what follows the last '/', trailing ones
\* removed.
filepathBase(path) ==
  IF path = <<>> THEN <<46>>
  ELSE IF path[Len(path)] = 47
    THEN IF Len(path) = 1 THEN <<47>> ELSE filepathBase(SubSeq(path, 1, Len(path) - 1))
  ELSE LET ks == {k \in 1..Len(path) : path[k] = 47}
       IN IF ks = {} THEN path
          ELSE drop(path, CHOOSE k \in ks : \A j \in ks : j <= k)

\* multipart.Part.FormName and FileName.
FormName(header) ==
  IF sName \in DOMAIN dispositionParams(header) THEN dispositionParams(header)[sName]
  ELSE <<>>
FileName(header) ==
  IF sFilename \in DOMAIN dispositionParams(header)
       /\ dispositionParams(header)[sFilename] # <<>>
    THEN filepathBase(dispositionParams(header)[sFilename])
  ELSE <<>>

RECURSIVE readParts(_, _)
\* multipart.Reader.NextPart until the closing boundary line, s following an
\* occurrence of "--" and the boundary, delim being CR LF "--" and the
\* boundary; [ok, parts], a part being its header lines and its content.
readParts(s, delim) ==
  IF hasPrefix(s, sDashDash) THEN [ok |-> TRUE, parts |-> <<>>]
  ELSE IF ~hasPrefix(s, sCRLF) THEN [ok |-> FALSE, parts |-> <<>>]
  ELSE LET rest == drop(s, 2)
           h == indexOf(rest, sCRLF \o sCRLF)
           after == drop(rest, h + 3)
           c == indexOf(after, delim)
       IN IF h = 0 \/ c = 0 THEN [ok |-> FALSE, parts |-> <<>>]
          ELSE LET more == readParts(drop(after, c - 1 + Len(delim)), delim)
               IN [ok |-> more.ok,
                   parts |-> <<[header |-> SubSeq(rest, 1, h + 1),
                                content |-> SubSeq(after, 1, c - 1)]>> \o more.parts]

\* The value x appended to the values of the key k of m.
appendTo(m, k, x) == MapSet(m, k, Append(IF k \in DOMAIN m THEN m[k] ELSE <<>>, x))

RECURSIVE readForm(_, _)
\* multipart.Reader.ReadForm over the parts: a part without a name is
\* skipped, a part without a file name is a value, another one a file.
readForm(parts, form) ==
  IF parts = <<>> THEN form
  ELSE LET p == Head(parts)
           name == FormName(p.header)
           fileName == FileName(p.header)
       IN readForm(Tail(parts),
            IF name = <<>> THEN form
            ELSE IF fileName = <<>>
              THEN [form EXCEPT !.value = appendTo(@, name, p.content)]
            ELSE [form EXCEPT !.file = appendTo(@, name, [fileName |-> fileName,
                                                          content |-> p.content])])

\* http.Request.ParseMultipartForm on the server, for a request with the
\* given Content-Type and body; [ok, value, file].
ParseMultipartForm(contentType, body) ==
  LET boundary == drop(contentType, Len(sMultipart))
      b0 == IF hasPrefix(body, sCRLF) THEN drop(body, 2) ELSE body
      rd == readParts(drop(b0, 2 + Len(boundary)), sCRLF \o sDashDash \o boundary)
      none == [ok |-> FALSE, value |-> EmptyMap, file |-> EmptyMap]
  IN IF ~hasPrefix(contentType, sMultipart) \/ boundary = <<>> THEN none
     ELSE IF ~hasPrefix(b0, sDashDash \o boundary) \/ ~rd.ok THEN none
     ELSE readForm(rd.parts, [ok |-> TRUE, value |-> EmptyMap, file |-> EmptyMap])

\* The most parts the caller of the form-data specification adds.
MaxParts == 2

\* What the caller of an Add, or of a Set that comes to it, has put.
fieldPut(key, value) ==
  [kind |-> "field", name |-> key, fileName |-> <<>>, content |-> convertString(value)]

\* The caller adds a field to the Form-Data encoder.
AddField(key, value) ==
  /\ Configuring
  /\ Len(put.fields) < MaxParts
  /\ formData' = FormDataAdd(formData, key, value).writer
  /\ put' = [put EXCEPT !.fields = Append(@, fieldPut(key, value))]
  /\ UNCHANGED <<request, ctxState, built, sentIds, streamRead, target, pc, args, i, ret,
                 hist, lastSet, client, derived, sibling, asked, formUrlEncoded, bytesBuffer, seen>>

\* The caller adds a file to the Form-Data encoder.
AddFormFile(name, fileName, file) ==
  /\ Configuring
  /\ Len(put.fields) < MaxParts
  /\ formData' = FormDataAddFile(formData, name, fileName, file).writer
  /\ put' = [put EXCEPT !.fields =
               Append(@, [kind |-> "file", name |-> name, fileName |-> fileName,
                          content |-> file])]
  /\ UNCHANGED <<request, ctxState, built, sentIds, streamRead, target, pc, args, i, ret,
                 hist, lastSet, client, derived, sibling, asked, formUrlEncoded, bytesBuffer, seen>>

\* The caller hands a map to Set, or to NewFormData on the new encoder.
SetFields(data) ==
  /\ Configuring
  /\ Len(put.fields) + Cardinality(DOMAIN data) <= MaxParts
  /\ \E order \in Orders(data) :
       /\ formData' = FormDataSet(formData, data, order).writer
       /\ put' = [put EXCEPT !.fields =
                    @ \o [k \in 1..Len(order) |-> fieldPut(order[k], data[order[k]])]]
  /\ UNCHANGED <<request, ctxState, built, sentIds, streamRead, target, pc, args, i, ret,
                 hist, lastSet, client, derived, sibling, asked, formUrlEncoded, bytesBuffer, seen>>

\* 'q"', "f" and "d/f", and what the caller of the form-data specification
\* passes: field keys and values, file names and contents, maps.
sq == <<113, 34>>
sf == <<102>>
sDirF == <<100, 47, 102>>
FieldKeys == {sk, sq, <<>>}
FieldValues == {StrV(sv), IntV(7)}
FileNames == {sf, sDirF, <<>>}
FileContents == {<<82>>, <<>>}
FieldMaps == {EmptyMap, (sk :> StrV(sv)) @@ (sx :> IntV(7))}

\* The caller calls Add, AddFile or Close on the Form-Data encoder, before an
\* execution call or after one returned; what the call returned, the buffer
\* before and after it, and whether the encoder had been closed before, are
\* kept.
UseForm(op) ==
  /\ \A p \in Procs : pc[p] \in {"idle", "done"}
  /\ IF op = "Close" THEN put.closes < MaxParts ELSE Len(put.fields) < MaxParts
  /\ LET res == IF op = "Add" THEN FormDataAdd(formData, sk, StrV(sv))
                ELSE IF op = "AddFile" THEN FormDataAddFile(formData, sk, sf, <<82>>)
                ELSE FormDataClose(formData)
     IN /\ formData' = res.writer
        /\ seen' = [seen EXCEPT !.formCall =
                      [op |-> op, err |-> res.err, before |-> formData.body,
                       after |-> res.writer.body, closed |-> put.closes > 0]]
  /\ put' = IF op = "Close" THEN [put EXCEPT !.closes = @ + 1]
            ELSE [put EXCEPT !.fields =
                    Append(@, IF op = "Add" THEN fieldPut(sk, StrV(sv))
                              ELSE [kind |-> "file", name |-> sk, fileName |-> sf,
                                    content |-> <<82>>])]
  /\ UNCHANGED <<request, ctxState, built, sentIds, streamRead, target, pc, args, i, ret,
                 hist, lastSet, client, derived, sibling, asked, formUrlEncoded, bytesBuffer>>

\* One goroutine builds a Form-Data encoder and sends it as the body.
FormDataNext ==
  \/ \E k \in FieldKeys, v \in FieldValues : AddField(k, v)
  \/ \E n \in FileNames, c \in FileContents : AddFormFile(sf, n, c)
  \/ \E m \in FieldMaps : SetFields(m)
  \/ Call(1, sPOST, uA, FormDataBody(formData))
  \/ \E p \in Procs : Lock(p)
  \/ \E p \in Procs : Preflight(p)
  \/ \E p \in Procs : Attempt(p)
  \/ \E p \in Procs, out \in ConcOutcomes : TransportReturn(p, out)

FormDataSpec == Init /\ [][FormDataNext]_vars

\* One goroutine uses a Form-Data encoder, closes it or sends it as the body,
\* and goes on using it.
FinalizeNext ==
  \/ \E op \in {"Add", "AddFile", "Close"} : UseForm(op)
  \/ Call(1, sPOST, uA, FormDataBody(formData))
  \/ \E p \in Procs : Lock(p)
  \/ \E p \in Procs : Preflight(p)
  \/ \E p \in Procs : Attempt(p)
  \/ \E p \in Procs, out \in ConcOutcomes : TransportReturn(p, out)

FinalizeSpec == Init /\ [][FinalizeNext]_vars

\* What the callers of the materialization specification pass: no body, a
\* value json.Marshal accepts or rejects, a Form-Data encoder whose Close
\* succeeds or fails.
MaterializeBodies == {Nil, bJson, bJsonBad, bFormData, bFormDataBad}

\* One goroutine sets the retry count and executes the Request with URLs and
\* bodies that materialize or fail to.
MaterializeNext ==
  \/ \E n \in 0..MaxRetry : Configure(RetryCount(request, n), EmptyMap)
  \/ \E u \in ExecURLs, b \in MaterializeBodies : Call(1, sPOST, u, b)
  \/ \E p \in Procs : Lock(p)
  \/ \E p \in Procs : Preflight(p)
  \/ \E p \in Procs : Attempt(p)
  \/ \E p \in Procs, out \in ConcOutcomes : TransportReturn(p, out)
  \/ \E p \in Procs : Sleep(p)

MaterializeSpec == Init /\ [][MaterializeNext]_vars

\* What the caller of the order specification configures: header keys, and
\* hook lists in which two hooks set the one header X-H, or a hook sets
\* Authorization or Cookie.
OrderKeys == {sAuthorization, sAuthorizationLower, sCookie}
OrderOptions ==
  {<<>>, <<[key |-> sXH, value |-> sh], [key |-> sXH, value |-> sx]>>,
   <<[key |-> sXH, value |-> sx], [key |-> sXH, value |-> sh]>>,
   <<[key |-> sAuthorization, value |-> sh]>>, <<[key |-> sCookie, value |-> sh]>>}

\* One goroutine configures credentials, headers, a cookie and hooks, and
\* then executes the Request.
OrderNext ==
  \/ \E k \in OrderKeys : Configure(Header(request, k, StrV(sx)), Names(k, sx))
  \/ Configure(BasicAuth(request, su, sp), EmptyMap)
  \/ Configure(BearerToken(request, st), EmptyMap)
  \/ Configure(Cookie(request, sk, StrV(sv)), EmptyMap)
  \/ \E opts \in OrderOptions : Configure(Options(request, opts), EmptyMap)
  \/ Call(1, sGET, uA, Nil)
  \/ \E p \in Procs : Lock(p)
  \/ \E p \in Procs : Preflight(p)
  \/ \E p \in Procs : Attempt(p)
  \/ \E p \in Procs, out \in ConcOutcomes : TransportReturn(p, out)

OrderSpec == Init /\ [][OrderNext]_vars

\* What the transport answers in the close specification: an error, or a
\* response whose body can or cannot be read and whose Close succeeds or
\* fails.
CloseOutcomes ==
  {[kind |-> "error"]}
    \cup [kind : {"response"}, status : {200}, body : {<<55>>}, readOK : BOOLEAN,
          closeOK : BOOLEAN]

\* One goroutine sets the retry count and executes the Request; the body
\* stream of a response may fail to be read and to be closed.
CloseNext ==
  \/ \E n \in 0..MaxRetry : Configure(RetryCount(request, n), EmptyMap)
  \/ Call(1, sGET, uA, Nil)
  \/ \E p \in Procs : Lock(p)
  \/ \E p \in Procs : Preflight(p)
  \/ \E p \in Procs : Attempt(p)
  \/ \E p \in Procs, out \in CloseOutcomes : TransportReturn(p, out)
  \/ \E p \in Procs : Sleep(p)

CloseSpec == Init /\ [][CloseNext]_vars

\* One goroutine configures credentials, an export target and a client, calls
\* BasicAuth with an empty username, Result with a target that is no pointer
\* and Client with nil, and executes the Request.
NoopNext ==
  \/ Configure(BasicAuth(request, su, sp), EmptyMap)
  \/ Configure(Result(request, Ptr), EmptyMap)
  \/ Configure(Client(request, [nil |-> FALSE]), EmptyMap)
  \/ Invalid("BasicAuth", BasicAuth(request, <<>>, sp))
  \/ Invalid("Result", Result(request, NonPtr))
  \/ Invalid("Client", Client(request, Nil))
  \/ Call(1, sGET, uA, Nil)
  \/ \E p \in Procs : Lock(p)
  \/ \E p \in Procs : Preflight(p)
  \/ \E p \in Procs : Attempt(p)
  \/ \E p \in Procs, out \in ConcOutcomes : TransportReturn(p, out)

NoopSpec == Init /\ [][NoopNext]_vars

\* What the callers of the frozen specification pass.
FrozenURLs == {uA, uAQ}
FrozenBodies == {Nil, bJson}

\* One goroutine executes a Request, configures it again and executes it
\* again with other arguments.
FrozenNext ==
  \/ Reconfigure(Header(request, sXH, StrV(sh)), Names(sXH, sh))
  \/ Reconfigure(Cookie(request, sk, StrV(sv)), EmptyMap)
  \/ Reconfigure(Query(request, sk, StrV(sv)), EmptyMap)
  \/ Reconfigure(BasicAuth(request, su, sp), EmptyMap)
  \/ Reconfigure(BearerToken(request, st), EmptyMap)
  \/ Reconfigure(Authorization(request, st), Names(sAuthorization, sBearerSp \o st))
  \/ Reconfigure(Options(request, <<[key |-> sXH, value |-> sx]>>), EmptyMap)
  \/ \E m \in ExecMethods, u \in FrozenURLs, b \in FrozenBodies : Call(1, m, u, b)
  \/ \E p \in Procs : Lock(p)
  \/ \E p \in Procs : Preflight(p)
  \/ \E p \in Procs : Attempt(p)
  \/ \E p \in Procs, out \in ConcOutcomes : TransportReturn(p, out)

FrozenSpec == Init /\ [][FrozenNext]_vars

\* One goroutine configures a Client, obtains a Request from it, configures
\* and executes that Request with an encoder body, and obtains another Request
\* from the Client before or after.
IsolationNext ==
  \/ ClientConfigure(ClientSetBaseURL(client, uA))
  \/ ClientConfigure(ClientHeader(client, sXH, StrV(sh)))
  \/ ClientConfigure(ClientCookie(client, sk, StrV(sv)))
  \/ ClientConfigure(ClientQuery(client, sk, StrV(sv)))
  \/ ClientConfigure(ClientRetryCount(client, MaxRetry))
  \/ ClientConfigure(ClientTimeout(client, MaxTimeout))
  \/ ClientConfigure(ClientBasicAuth(client, su, sp))
  \/ Derive
  \/ DeriveSibling
  \/ derived /\ Configure(Header(request, sXH, StrV(sx)), Names(sXH, sx))
  \/ derived /\ Configure(Cookie(request, sk, StrV(sx)), EmptyMap)
  \/ derived /\ Configure(Query(request, sk, StrV(sx)), EmptyMap)
  \/ derived /\ Configure(BearerToken(request, st), EmptyMap)
  \/ derived /\ Configure(setBaseURL(request, <<>>), EmptyMap)
  \/ derived /\ Call(1, sPOST, uA, bBytes)
  \/ \E p \in Procs : Lock(p)
  \/ \E p \in Procs : Preflight(p)
  \/ \E p \in Procs : Attempt(p)
  \/ \E p \in Procs, out \in ConcOutcomes : TransportReturn(p, out)
  \/ \E p \in Procs : Sleep(p)
  \/ Reconfigure(Header(request, sXH, StrV(sx)), Names(sXH, sx))

IsolationSpec == Init /\ [][IsolationNext]_vars

\* A goroutine inside retryDo keeps running, the transport answers or fails
\* in the end, and sync.Mutex hands the lock to a goroutine that keeps waiting
\* for it (its starvation mode).
ConcSpec ==
  /\ Init
  /\ [][ConcNext]_vars
  /\ \A p \in Procs :
       /\ SF_vars(Lock(p))
       /\ WF_vars(Preflight(p))
       /\ WF_vars(Attempt(p))
       /\ WF_vars(\E out \in ConcOutcomes : TransportReturn(p, out))
       /\ WF_vars(Sleep(p))

\* ----------------------------------------------------------------- claims

\* How often x occurs in sequence s.
Count(s, x) == Cardinality({k \in 1..Len(s) : s[k] = x})

\* Every attempt of the call of p failed.
AllFailed(p) ==
  /\ hist[p].outcomes # <<>>
  /\ \A k \in 1..Len(hist[p].outcomes) : hist[p].outcomes[k] = "fail"

\* The first n-1 attempts of the call of p failed and attempt n succeeded,
\* n being the retry count.
FailedThenOk(p) ==
  /\ Len(hist[p].outcomes) = hist[p].n
  /\ \A k \in 1..Len(hist[p].outcomes) :
       hist[p].outcomes[k] = IF k = hist[p].n THEN "ok" ELSE "fail"

\* C1: when the first N-1 attempts of a call fail and the N-th succeeds, N
\* being the retry count, the call returns a Response and no error, and the
\* transport has been invoked exactly N times.
C1_RetrySucceedsOnNth ==
  \A p \in Procs :
    (pc[p] = "done" /\ FailedThenOk(p)) =>
      /\ ret[p].err = Nil
      /\ ret[p].resp # Nil
      /\ ret[p].resp = request.response
      /\ hist[p].sent = hist[p].n

\* A call with retry count 3 whose third attempt succeeded has returned.
C1_Witness ==
  \E p \in Procs : pc[p] = "done" /\ FailedThenOk(p) /\ hist[p].n >= 3

\* C2: when every attempt of a call fails, do has run exactly retryCount
\* times, the Response returned is nil, and the error is the last attempt's
\* error wrapped with RequestRetryDo, carrying the method, the url argument
\* and whether a non-nil body was supplied.
C2_RetryExhausted ==
  \A p \in Procs :
    (pc[p] = "done" /\ AllFailed(p)) =>
      /\ hist[p].attempts = hist[p].n
      /\ ret[p].resp = Nil
      /\ ret[p].err = [kind |-> "request.retry_do", cause |-> hist[p].lastErr,
                       method |-> args[p].method, url |-> args[p].url,
                       body |-> args[p].body # Nil]

\* A call with retry count 3 and a body has returned after three failures.
C2_Witness ==
  \E p \in Procs :
    pc[p] = "done" /\ AllFailed(p) /\ hist[p].n >= 3 /\ args[p].body # Nil

\* C3: once the wire request is materialized it is never rebuilt or replaced,
\* and every attempt hands that very object to the transport.
C3_WireRequestNeverRebuilt ==
  [][/\ request.req # Nil => request'.req = request.req
     /\ \A x \in sentIds' : request'.req # Nil /\ x = request'.req.id]_vars

\* A retry has sent the cached wire request, whose body was read before.
C3_Witness ==
  \E p \in Procs :
    pc[p] = "inflight" /\ hist[p].sent >= 2 /\ request.req # Nil /\ streamRead

\* The steps of a materialization that follow http.NewRequest.
PostSteps == {"query", "auth", "headers", "cookies", "options"}

\* C4, as claimed: within a call on a Request without a wire request, no
\* materialization step runs more than once, and each has run exactly once
\* when the call returns after an attempt.
C4_Original_StepsRunOnce ==
  \A p \in Procs :
    hist[p].fresh =>
      \A s \in PostSteps \cup {"dispatch", "Close"} :
        /\ Count(hist[p].log, s) <= 1
        /\ (pc[p] = "done" /\ hist[p].sent >= 1 /\ s # "Close")
             => Count(hist[p].log, s) = 1

\* C4, amended: the steps that follow http.NewRequest run at most once in a
\* call, all together, in the attempt that materializes the wire request, and
\* nothing runs after them; the body dispatch (with Close for a Form-Data
\* body) runs once in every attempt whose materialization fails and once
\* more in the attempt that materializes.
C4_StepsOncePerMaterialization ==
  \A p \in Procs :
    LET L == hist[p].log
        m == Count(L, "options")
        f == hist[p].attempts - hist[p].sent
    IN /\ m <= 1
       /\ \A s \in PostSteps : Count(L, s) = m
       /\ (m = 1) = (hist[p].fresh /\ hist[p].sent >= 1)
       /\ m = 1 => L[Len(L)] = "options"
       /\ hist[p].fresh => Count(L, "dispatch") = f + m
       /\ ~hist[p].fresh => L = <<>>
       /\ Count(L, "Close") =
            IF dispatchKind(args[p].body) = "FormData" THEN Count(L, "dispatch") ELSE 0

\* A call has run Close of its Form-Data body in two attempts, neither of
\* which created the wire request.
C4_Witness ==
  \E p \in Procs : Count(hist[p].log, "Close") >= 2 /\ request.req = Nil

\* C5: a call made while the Request's context is canceled, or reports an
\* error, materializes nothing, runs no attempt, invokes no transport, does
\* not sleep, and returns an error and a nil Response.
C5_PreflightStopsCall ==
  \A p \in Procs :
    (pc[p] # "idle" /\ (hist[p].ctxAtCall.done \/ hist[p].ctxAtCall.err)) =>
      /\ pc[p] \in {"lock", "preflight", "done"}
      /\ hist[p].attempts = 0 /\ hist[p].sent = 0 /\ hist[p].sleeps = 0
      /\ hist[p].log = <<>>
      /\ pc[p] = "done" => ret[p].err # Nil /\ ret[p].resp = Nil

\* A call made on a context whose Err() is not nil but whose Done() is open
\* has returned.
C5_Witness ==
  \E p \in Procs :
    pc[p] = "done" /\ hist[p].ctxAtCall.err /\ ~hist[p].ctxAtCall.done

\* The caller p is between its pre-flight check and its return.
InCall(p) == pc[p] \in {"preflight", "attempt", "inflight", "sleep"}

\* At most one caller is inside, it holds the lock, and a caller that has
\* returned does not.
MutexOK ==
  /\ \A p, q \in Procs : (InCall(p) /\ InCall(q)) => p = q
  /\ \A p \in Procs : InCall(p) => request.mx = p
  /\ \A p \in Procs : pc[p] \in {"idle", "lock", "done"} => request.mx # p

Materialized(p) ==
  pc[p] \in {"inflight", "done"} /\ hist[p].fresh /\ request.req # Nil

\* C8: the body of the wire request is that of the first variant, in the
\* order Form-Data, Bytes, Form-URL-Encoded, JSON, that the body value
\* satisfies; one dispatch runs per materialization, with Close only for
\* Form-Data; without a body value the wire request has no body.
C8_BodyVariantPriority ==
  \A p \in Procs : Materialized(p) =>
    LET b == args[p].body
        w == request.req.body
    IN /\ Count(hist[p].log, "dispatch") = 1
       /\ Count(hist[p].log, "Close") = (IF w.kind = "FormData" THEN 1 ELSE 0)
       /\ b = Nil => w = [kind |-> "none", data |-> <<>>]
       /\ b # Nil =>
            /\ "FormData" \in b.caps =>
                 w = [kind |-> "FormData", data |-> b.data.buffer]
            /\ ("FormData" \notin b.caps /\ "Bytes" \in b.caps) =>
                 w = [kind |-> "Bytes", data |-> b.data.reader]
            /\ (b.caps \cap {"FormData", "Bytes"} = {} /\ "FormUrlEncoded" \in b.caps) =>
                 w = [kind |-> "FormUrlEncoded", data |-> b.data.reader]
            /\ b.caps = {} => w = [kind |-> "JSON", data |-> b.data.json]

\* A body that is a Form-Data and a Bytes encoder at once has been
\* materialized.
C8_Witness == Materialized(1) /\ args[1].body = bFormDataBytes

\* The keys of the headers map that name the header key on the wire.
KeysFor(r, key) ==
  {k \in DOMAIN r.headers : CanonicalMIMEHeaderKey(k) = CanonicalMIMEHeaderKey(key)}

\* A hook of the Request sets the header key.
HookSets(r, key) ==
  \E n \in 1..Len(r.options) :
    CanonicalMIMEHeaderKey(r.options[n].key) = CanonicalMIMEHeaderKey(key)

\* C9: when no hook touches Content-Type, the wire Content-Type is the
\* encoder's for a Form-Data or Bytes body and the form value for a
\* Form-URL-Encoded body, whatever the caller configured; for a JSON body it
\* is a value the caller configured, or absent when there is none.
C9_ContentTypeFollowsDispatch ==
  \A p \in Procs : (Materialized(p) /\ ~HookSets(request, sContentType)) =>
    LET b == args[p].body
        w == request.req
    IN /\ w.body.kind \in {"FormData", "Bytes"} =>
            HeaderGet(w.header, sContentType) = b.contentType
       /\ w.body.kind = "FormUrlEncoded" =>
            HeaderGet(w.header, sContentType) = sFormUrlEncoded
       /\ w.body.kind = "JSON" =>
            IF KeysFor(request, sContentType) = {}
              THEN sContentType \notin DOMAIN w.header
              ELSE HeaderGet(w.header, sContentType) \in
                     {convertString(request.headers[k]) : k \in KeysFor(request, sContentType)}

\* "Basic dTpw": the basic credentials of u and p, and "Bearer t".
sBasicUP == <<66, 97, 115, 105, 99, 32, 100, 84, 112, 119>>
sBearerT == <<66, 101, 97, 114, 101, 114, 32, 116>>

C11_LastDirectAuthorizationWins ==
  \A p \in Procs :
    (/\ Materialized(p)
     /\ sAuthorization \in DOMAIN lastSet
     /\ ~HookSets(request, sAuthorization)) =>
      HeaderGet(request.req.header, sAuthorization) = lastSet[sAuthorization]

\* The caller of p has called Parse on the Response its call returned.
Parsed(p) == pc[p] = "done" /\ hist[p].parse # Nil

\* The bytes of the body the Response of Parse has buffered.
ParsedBody(p) == hist[p].parse.response.bodyBlob.bytes

\* C12: Parse on a returned Response whose body is empty returns no error
\* and leaves the target as it was.
C12_ParseEmptyBodyNoOp ==
  \A p \in Procs : (Parsed(p) /\ ParsedBody(p) = <<>>) =>
    hist[p].parse.err = Nil /\ target = hist[p].parse.before

sentURL(req) ==
  req.url \o (IF req.rawQuery # <<>> THEN <<63>> \o req.rawQuery ELSE <<>>)

\* C14: Parse into a pointer on a body that is not empty and not valid JSON
\* returns the ParseResponseBody error with the URL the request was sent to,
\* the status code and the buffered bytes.
C14_ParseErrorCarriesContext ==
  \A p \in Procs :
    (/\ Parsed(p)
     /\ hist[p].parse.export = Ptr
     /\ ParsedBody(p) # <<>>
     /\ ~jsonValid(ParsedBody(p))) =>
      hist[p].parse.err =
        [kind |-> "response.parse_body",
         data |-> [url |-> sentURL(request.req),
                   code |-> hist[p].parse.response.status,
                   blob |-> ParsedBody(p)]]

\* The transport answered the latest attempt of p with a response whose body
\* could be read.
Delivered(p) ==
  /\ hist[p].delivered # Nil
  /\ hist[p].delivered.kind = "response"
  /\ hist[p].delivered.readOK

\* The call of p ended with the attempt that succeeded: no attempt and no
\* sleep followed it.
EndedOnSuccess(p) ==
  /\ hist[p].attempts = Len(hist[p].outcomes)
  /\ hist[p].outcomes[Len(hist[p].outcomes)] = "ok"
  /\ Count(hist[p].outcomes, "ok") = 1
  /\ hist[p].sleeps = hist[p].attempts - 1

\* C15: with an export target configured, a call whose attempt got a
\* readable response returns the Response and no error after that attempt,
\* whether or not the body decodes; when it decodes, the target holds the
\* decoded value when the call returns.
C15_ExportFailureNeverFailsCall ==
  \A p \in Procs :
    (pc[p] = "done" /\ request.export # Nil /\ Delivered(p)) =>
      /\ ret[p].err = Nil
      /\ ret[p].resp # Nil
      /\ EndedOnSuccess(p)
      /\ (hist[p].parse = Nil /\ jsonValid(hist[p].delivered.body)) =>
            target = Blob(hist[p].delivered.body)

\* A call with an export target and retries left has returned after one
\* attempt whose body did not decode.
C15_Witness ==
  /\ pc[1] = "done"
  /\ request.export = Ptr
  /\ Delivered(1)
  /\ hist[1].delivered.body \in {<<>>, sx}
  /\ hist[1].n >= 2
  /\ hist[1].attempts = 1

\* C16: a call returns a Response only from the step in which its own
\* attempt got a readable response; the Response is the one that attempt
\* created, and it holds the whole body the transport delivered.
C16_ResponseOfSucceedingAttempt ==
  [][\A p \in Procs :
       (pc[p] # "done" /\ pc'[p] = "done" /\ ret'[p].resp # Nil) =>
         /\ pc[p] = "inflight"
         /\ Delivered(p)'
         /\ ret'[p].resp = request'.response
         /\ ret'[p].resp.by = <<p, hist[p].attempts>>
         /\ ret'[p].resp.bodyBlob = Blob(hist'[p].delivered.body)
         /\ ret'[p].resp.status = hist'[p].delivered.status]_vars

\* A call has returned the Response of its second attempt, after a first
\* attempt that failed.
C16_Witness ==
  /\ pc[1] = "done"
  /\ ret[1].resp # Nil
  /\ hist[1].outcomes = <<"fail", "ok">>
  /\ ret[1].resp.by = <<1, 2>>

\* C17: IsFailure of a returned Response is false for the status codes 200 to
\* 399 and true for 400 to 599.
C17_IsFailureFrom400 ==
  \A p \in Procs : (pc[p] = "done" /\ ret[p].resp # Nil) =>
    /\ ret[p].resp.status \in 200..399 => ~IsFailure(ret[p].resp)
    /\ ret[p].resp.status \in 400..599 => IsFailure(ret[p].resp)

\* A Response with status 400 has been returned and reports a failure.
C17_Witness ==
  pc[1] = "done" /\ ret[1].resp # Nil /\ ret[1].resp.status = 400 /\ IsFailure(ret[1].resp)

\* C18: a call whose attempt got a readable response of any status returns
\* that Response and no error after that attempt, without a further attempt
\* or sleep, and IsFailure tells whether the status is 400 or more.
C18_HttpErrorStatusIsSuccess ==
  \A p \in Procs : (pc[p] = "done" /\ Delivered(p)) =>
    /\ ret[p].err = Nil
    /\ ret[p].resp # Nil
    /\ ret[p].resp.status = hist[p].delivered.status
    /\ EndedOnSuccess(p)
    /\ IsFailure(ret[p].resp) <=> hist[p].delivered.status >= 400

\* A call with retries left has returned a Response of status 500 after one
\* attempt.
C18_Witness ==
  /\ pc[1] = "done"
  /\ Delivered(1)
  /\ ret[1].resp.status = 500
  /\ IsFailure(ret[1].resp)
  /\ hist[1].n >= 2
  /\ hist[1].attempts = 1

\* The pre-flight errors of retryDo, as wrapped on return.
PreflightErrors == {"context.canceled_and_has_error", "context.canceled", "ctx.Err"}

\* C19: the Request, made by R or by Client.R and configured with any
\* arguments, has retryCount >= 1, retryWait > 0 and timeout >= 0, and a call
\* that returned without an attempt was stopped by the pre-flight check.
C19_LimitsKept ==
  /\ request.retryCount >= 1
  /\ request.retryWait > 0
  /\ request.timeout >= 0
  /\ \A p \in Procs :
       (pc[p] = "done" /\ hist[p].attempts = 0) =>
         /\ ret[p].err # Nil
         /\ ret[p].err.cause.kind \in PreflightErrors

\* A Request obtained from a Client whose retry count, retry wait and timeout
\* are zero has the limits of R, and its call made one attempt and returned.
C19_Witness ==
  /\ derived
  /\ client.retryCount = 0 /\ client.retryWait = 0 /\ client.timeout = 0
  /\ request.retryCount = 1 /\ request.retryWait = 100 /\ request.timeout = 0
  /\ pc[1] = "done" /\ hist[1].attempts = 1

\* The Request r has the settings of the Client c, a retry count or retry
\* wait the Client never set being that of R.
Inherited(c, r) ==
  /\ r.baseURL = c.baseURL
  /\ r.client = c.client
  /\ r.headers = c.headers
  /\ r.cookies = c.cookies
  /\ r.queryVariables = c.queryVariables
  /\ r.retryCount = (IF c.retryCount = 0 THEN R("caller").retryCount ELSE c.retryCount)
  /\ r.retryWait = (IF c.retryWait = 0 THEN R("caller").retryWait ELSE c.retryWait)
  /\ r.timeout = c.timeout
  /\ r.basic = c.basic
  /\ r.bearerToken = c.bearerToken

\* C20: the Request obtained from Client.R has the Client's settings, and a
\* setting set again on it afterwards, to any value a Request made by R can
\* have (retry count 1, no timeout and no basic auth included), has that value.
C20_InheritedAndOverridable ==
  derived =>
    /\ asked.setting = "none" => Inherited(client, request)
    /\ asked.setting = "retryCount" => request.retryCount = asked.value
    /\ asked.setting = "retryWait" => request.retryWait = asked.value
    /\ asked.setting = "timeout" => request.timeout = asked.value
    /\ asked.setting = "basic" => request.basic = asked.value
    /\ asked.setting = "bearerToken" => request.bearerToken = asked.value

\* C21: a call made on a context that is canceled fails, with no Response,
\* with ContextCanceledAndHasError when the context carries an error and with
\* ContextCanceled when it carries none, wrapped by retryDo.
C21_PreflightErrorKind ==
  \A p \in Procs :
    (pc[p] = "done" /\ hist[p].ctxAtCall.done) =>
      /\ ret[p].resp = Nil
      /\ ret[p].err # Nil
      /\ ret[p].err.kind = "request.retry_do"
      /\ ret[p].err.cause =
           (IF hist[p].ctxAtCall.err THEN Err("context.canceled_and_has_error")
            ELSE Err("context.canceled"))

\* A call made on a canceled context that carries no error has returned
\* ContextCanceled.
C21_Witness ==
  \E p \in Procs :
    /\ pc[p] = "done" /\ hist[p].ctxAtCall.done /\ ~hist[p].ctxAtCall.err
    /\ ret[p].err.cause = Err("context.canceled")

\* The parameters of a raw query: its '&'-separated pairs that are not empty.
rawParams(raw) == {pr \in {Split(raw, 38)[k] : k \in 1..Len(Split(raw, 38))} : pr # <<>>}

\* The key and the value of a raw pair as written, before decoding.
rawKey(pr) == IF IndexByte(pr, 61) = 0 THEN pr ELSE SubSeq(pr, 1, IndexByte(pr, 61) - 1)
rawValue(pr) ==
  IF IndexByte(pr, 61) = 0 THEN <<>> ELSE SubSeq(pr, IndexByte(pr, 61) + 1, Len(pr))

\* The raw pair pr is among the parameters of the raw query wire: as written,
\* or as a pair that decodes to the same key and value.
Preserved(pr, wire) ==
  \E w \in rawParams(wire) :
    \/ w = pr
    \/ /\ QueryUnescape(rawKey(pr)).ok /\ QueryUnescape(rawValue(pr)).ok
       /\ QueryUnescape(rawKey(w)) = QueryUnescape(rawKey(pr))
       /\ QueryUnescape(rawValue(w)) = QueryUnescape(rawValue(pr))

\* The key of the raw pair pr is one of the configured query parameters.
ConfiguredKey(pr, r) ==
  QueryUnescape(rawKey(pr)).ok /\ QueryUnescape(rawKey(pr)).s \in DOMAIN r.queryVariables

\* C22: in the query of the wire request every configured key decodes to its
\* one stringified value, and every parameter of the URL whose key was not
\* configured is still present.
C22_QueryMerged ==
  (pc[1] # "idle" /\ hist[1].fresh /\ request.req # Nil) =>
    /\ \A k \in DOMAIN request.queryVariables :
         /\ k \in DOMAIN ParseQuery(request.req.rawQuery)
         /\ ParseQuery(request.req.rawQuery)[k] = <<convertString(request.queryVariables[k])>>
    /\ \A pr \in rawParams(rawQueryOf(args[1].url)) :
         ~ConfiguredKey(pr, request) => Preserved(pr, request.req.rawQuery)

\* C23: what each Reader() of the Form-URL-Encoded encoder yields decodes, as
\* a URL query, to exactly the keys then set and not deleted, each with the
\* one value set last, and Get and Has answer from that same map.
C23_FormRoundTrip ==
  /\ seen.reader # Nil =>
       ParseQuery(seen.reader.data) = [k \in DOMAIN seen.reader.at |-> <<seen.reader.at[k]>>]
  /\ (seen.call # Nil /\ seen.call.op = "Get") =>
       seen.call.result =
         Blob(IF seen.call.key \in DOMAIN seen.call.at THEN seen.call.at[seen.call.key]
              ELSE <<>>)
  /\ (seen.call # Nil /\ seen.call.op = "Has") =>
       seen.call.result = Blob(IF seen.call.key \in DOMAIN seen.call.at THEN <<1>> ELSE <<0>>)

\* Reader() was called a second time, after a change, and what it yielded
\* differs from the first and holds the key "a &" with the value "x&=".
C23_Witness ==
  /\ seen.reader # Nil /\ seen.before # Nil
  /\ seen.before # Blob(seen.reader.data)
  /\ sKeySpaceAmp \in DOMAIN seen.reader.at
  /\ seen.reader.at[sKeySpaceAmp] = sValAmpEq
  /\ seen.call # Nil

\* C25: every Write to the Bytes encoder returns the length of its input and
\* no error; while the encoder has not been read, Bytes() and what Reader()
\* reads are the slices written, concatenated in call order; ContentType() is
\* "application/octet-stream" until SetContentType is called and the value
\* set last from then on.
C25_BytesEncoder ==
  /\ seen.write # Nil => (seen.write.n = Len(seen.write.bytes) /\ seen.write.err = Nil)
  /\ (seen.bytesCall # Nil /\ seen.bytesCall.op = "Bytes" /\ ~seen.bytesCall.at.read) =>
       seen.bytesCall.result = seen.bytesCall.at.written
  /\ (seen.bytesRead # Nil /\ ~seen.bytesRead.at.read) =>
       seen.bytesRead.data = seen.bytesRead.at.written
  /\ (seen.bytesCall # Nil /\ seen.bytesCall.op = "ContentType") =>
       seen.bytesCall.result =
         (IF seen.bytesCall.at.contentType = Nil THEN sOctetStream
          ELSE seen.bytesCall.at.contentType.bytes)

\* Two writes were made, "R" and then "ST", and the encoder, read for the
\* first time, yielded "RST".
C25_Witness ==
  /\ seen.write # Nil /\ seen.write.bytes = <<83, 84>>
  /\ seen.bytesRead # Nil /\ ~seen.bytesRead.at.read
  /\ seen.bytesRead.data = <<82, 83, 84>>

RECURSIVE putForm(_, _)
\* The form the caller has put: per name the values added, and per name the
\* files added with their file name and content, in call order.
putForm(fields, form) ==
  IF fields = <<>> THEN form
  ELSE putForm(Tail(fields),
         IF Head(fields).kind = "field"
           THEN [form EXCEPT !.value = appendTo(@, Head(fields).name, Head(fields).content)]
         ELSE [form EXCEPT !.file = appendTo(@, Head(fields).name,
                                             [fileName |-> Head(fields).fileName,
                                              content |-> Head(fields).content])])

\* C24: the wire request made from the Form-Data encoder decodes on the
\* server, as a multipart form, to exactly the fields added with their
\* stringified values and the files added with their file name and content.
C24_FormDataRoundTrip ==
  (pc[1] # "idle" /\ hist[1].fresh /\ request.req # Nil) =>
    ParseMultipartForm(HeaderGet(request.req.header, sContentType), request.req.body.data)
      = putForm(put.fields, [ok |-> TRUE, value |-> EmptyMap, file |-> EmptyMap])

\* C26: a Response made in an attempt that failed (its body was never
\* buffered) is neither held by the Request nor returned to a caller.
C26_NoResponseOfFailedAttempt ==
  /\ request.response # Nil => request.response.bodyBlob # Nil
  /\ \A p \in Procs : ret[p].resp # Nil => ret[p].resp.bodyBlob # Nil

\* The last attempt of the call of p so far failed.
LastFailed(p) ==
  hist[p].outcomes # <<>> /\ hist[p].outcomes[Len(hist[p].outcomes)] = "fail"

\* C27: an attempt starts only when every attempt before it has returned a
\* failure and has been followed by one sleep of the retry wait; a failed
\* attempt that is not the last one allowed is followed by one sleep, a
\* successful attempt and the failure of the last attempt by none.
C27_SequentialAttempts ==
  \A p \in Procs :
    LET h == hist[p]
        done == Len(h.outcomes)
    IN /\ h.waited = h.sleeps * h.wait
       /\ done <= h.n
       /\ \A k \in 1..(done - 1) : h.outcomes[k] = "fail"
       /\ pc[p] = "attempt" => (h.attempts = done /\ h.sleeps = done /\ done < h.n)
       /\ pc[p] = "inflight" => (h.attempts = done + 1 /\ h.sleeps = done)
       /\ pc[p] = "sleep" =>
            (h.attempts = done /\ h.sleeps = done - 1 /\ LastFailed(p) /\ done < h.n)
       /\ pc[p] = "done" =>
            /\ h.attempts = done
            /\ h.sleeps = (IF done = 0 THEN 0 ELSE done - 1)
            /\ LastFailed(p) => done = h.n

\* A call allowed three attempts has returned after two failures, each
\* followed by a sleep of the retry wait of 50 ms, and a success.
C27_Witness ==
  /\ pc[1] = "done" /\ hist[1].n = 3
  /\ hist[1].outcomes = <<"fail", "fail", "ok">>
  /\ hist[1].sleeps = 2 /\ hist[1].waited = 100 /\ hist[1].wait = 50

\* C28: a call whose caller's context was canceled after the pre-flight
\* check, in an attempt or in a retry sleep, goes on as its attempts' outcomes
\* and the retry count say: it is not stopped while attempts are left after a
\* failure, it returns the Response of a successful attempt, and it returns
\* the error of the last attempt when all failed, never a pre-flight error.
C28_CancelOnlyPreflight ==
  \A p \in Procs :
    LET h == hist[p]
        done == Len(h.outcomes)
    IN h.canceledIn # "none" =>
         /\ \A k \in 1..(done - 1) : h.outcomes[k] = "fail"
         /\ pc[p] = "sleep" => h.attempts = done /\ done < h.n
         /\ pc[p] = "done" =>
              /\ h.attempts = done /\ done >= 1
              /\ IF h.outcomes[done] = "ok"
                   THEN ret[p].err = Nil /\ ret[p].resp # Nil
                   ELSE /\ done = h.n
                        /\ ret[p].err # Nil
                        /\ ret[p].err.cause = h.lastErr
                        /\ h.lastErr.kind \notin PreflightErrors

\* The caller's context was canceled in the sleep after the first of three
\* attempts allowed; the two others were made and the last one succeeded.
C28_Witness ==
  /\ pc[1] = "done"
  /\ hist[1].canceledIn = "sleep"
  /\ ctxState.caller.done
  /\ hist[1].n = 3
  /\ hist[1].outcomes = <<"fail", "fail", "ok">>
  /\ ret[1].err = Nil

\* The caller's context was canceled while the first attempt was in flight.
C28_InFlight ==
  /\ pc[1] = "done"
  /\ hist[1].canceledIn = "inflight"
  /\ hist[1].n = 2
  /\ hist[1].outcomes = <<"fail", "ok">>

\* The errors initRequest returns: of the Form-Data encoder's Close, of
\* json.Marshal, of http.NewRequest.
MaterializeErrors == {"formdata_writer.close", "json.Marshal", "http.NewRequest"}

\* C29: when the materialization of an attempt failed, the transport was not
\* called in it, the Request holds no wire request, the attempt counts as a
\* failed one in the retry loop (a sleep follows only while attempts are
\* left), and the call returns, after the last attempt allowed, that error
\* wrapped with RequestRetryDo.
C29_MaterializationFailure ==
  \A p \in Procs :
    LET h == hist[p]
    IN (pc[p] \in {"sleep", "done"} /\ h.lastErr # Nil /\ h.lastErr.kind \in MaterializeErrors) =>
         /\ h.sent = 0

         /\ request.req = Nil
         /\ AllFailed(p)
         /\ pc[p] = "sleep" => h.attempts < h.n
         /\ pc[p] = "done" =>
              /\ h.attempts = h.n
              /\ ret[p].err # Nil
              /\ ret[p].err.kind = "request.retry_do"
              /\ ret[p].err.cause = h.lastErr

\* A call with a Form-Data encoder whose Close fails, allowed two attempts,
\* has returned after two materializations and one sleep.
C29_Witness ==
  /\ pc[1] = "done"
  /\ args[1].body = bFormDataBad /\ args[1].url = uA
  /\ hist[1].n = 2 /\ hist[1].attempts = 2 /\ hist[1].sleeps = 1
  /\ hist[1].lastErr = Err("formdata_writer.close")
  /\ ret[1].err.kind = "request.retry_do"

\* "x; k=v"
sCookieAfterHeader == sx \o <<59, 32>> \o sk \o <<61>> \o sv

\* C30: the steps after http.NewRequest ran in the order query, auth,
\* headers, cookies, hooks, and the wire request sent shows it: a header the
\* last hook that names it wrote has that value, whatever was configured; an
\* Authorization header configured is a configured value, not the one of the
\* basic or bearer credentials, unless a hook set it; a cookie is appended to
\* the Cookie header configured, unless a hook set it.
C30_MaterializationOrder ==
  \A p \in Procs : Materialized(p) =>
    LET w == request.req
        opts == request.options
        log == hist[p].log
    IN /\ Len(log) >= 5
       /\ SubSeq(log, Len(log) - 4, Len(log))
            = <<"query", "auth", "headers", "cookies", "options">>
       /\ \A n \in 1..Len(opts) :
            (\A m \in (n + 1)..Len(opts) :
               CanonicalMIMEHeaderKey(opts[m].key) # CanonicalMIMEHeaderKey(opts[n].key))
              => HeaderGet(w.header, opts[n].key) = opts[n].value
       /\ (KeysFor(request, sAuthorization) # {} /\ ~HookSets(request, sAuthorization)) =>
            HeaderGet(w.header, sAuthorization)
              \in {convertString(request.headers[k]) : k \in KeysFor(request, sAuthorization)}
       /\ (DOMAIN request.cookies = {sk} /\ ~HookSets(request, sCookie)) =>
            HeaderGet(w.header, sCookie)
              = (IF KeysFor(request, sCookie) # {}
                   THEN convertString(request.headers[sCookie]) \o <<59, 32>>
                   ELSE <<>>) \o sk \o <<61>> \o convertString(request.cookies[sk])

\* Basic credentials, an Authorization header, a Cookie header and a cookie
\* are configured, two hooks set X-H to h and then to x, and the wire request
\* made has the Authorization configured, the cookie after the Cookie header
\* and the X-H of the second hook.
C30_Witness ==
  /\ Materialized(1)
  /\ request.basic.username = su
  /\ KeysFor(request, sAuthorization) = {sAuthorization}
  /\ request.options = <<[key |-> sXH, value |-> sh], [key |-> sXH, value |-> sx]>>
  /\ HeaderGet(request.req.header, sAuthorization) = sx
  /\ HeaderGet(request.req.header, sCookie) = sCookieAfterHeader
  /\ HeaderGet(request.req.header, sXH) = sx

\* C31: a call of Parse or of the accessors on the Response returned leaves
\* the Response (its buffered body and its exchange) and the Request as they
\* were; the accessors return the Response's fields; a Parse with the same
\* kind of target as the Parse before it returns the same error, and a
\* successful Parse leaves in the target the document of the buffered body,
\* however often it is repeated.
C31_ParseAndAccessorsPure ==
  [][\A p \in Procs :
       (pc[p] = "done" /\ pc'[p] = "done" /\ ret[p].resp # Nil) =>
         /\ ret'[p] = ret[p]
         /\ request' = request
         /\ hist'[p].read # Nil =>
              /\ hist'[p].read.bodyRaw = ret[p].resp.bodyBlob
              /\ hist'[p].read.statusCode = ret[p].resp.status
              /\ hist'[p].read.raw = ret[p].resp.by
              /\ hist'[p].read.isFailure = IsFailureCode(ret[p].resp.status)
         /\ hist'[p].parse # hist[p].parse =>
              /\ hist'[p].parse.response = ret[p].resp
              /\ (hist'[p].parse.err = Nil /\ ret[p].resp.bodyBlob # Nil) =>
                   target' = Blob(ret[p].resp.bodyBlob.bytes)
              /\ hist'[p].parse.err # Nil => target' = target
              /\ (hist[p].parse # Nil /\ hist'[p].parse.export = hist[p].parse.export) =>
                   hist'[p].parse.err = hist[p].parse.err
    ]_vars

\* The Request has no export target of its own, and the latest Parse of the
\* caller, a successful one, found in the target the document an earlier
\* Parse had decoded; the accessors have been called as well.
C31_Witness ==
  /\ pc[1] = "done"
  /\ request.export = Nil
  /\ hist[1].parse # Nil /\ hist[1].parse.export = Ptr /\ hist[1].parse.err = Nil
  /\ hist[1].parse.before = target
  /\ target = Blob(<<55>>)
  /\ hist[1].read # Nil

\* C32: when an attempt has returned, Close has been called once on the body
\* stream of every response the transport returned in the call, also on one
\* whose body could not be read; an attempt whose body was read counts as
\* successful and the call returns its Response with the body buffered,
\* whatever Close returned, and an attempt whose body could not be read
\* fails with the read error.
C32_BodyClosedOnce ==
  \A p \in Procs :
    LET h == hist[p]
        out == h.delivered
    IN pc[p] \in {"attempt", "sleep", "done"} =>
         /\ Len(h.closed) = h.answered
         /\ h.answered <= Len(h.outcomes)
         /\ Count(h.outcomes, "ok") <= h.answered
         /\ (pc[p] \in {"sleep", "done"} /\ out # Nil /\ out.kind = "response") =>
              IF out.readOK
                THEN /\ h.outcomes[Len(h.outcomes)] = "ok"
                     /\ pc[p] = "done"
                     /\ ret[p].err = Nil
                     /\ ret[p].resp.bodyBlob = Blob(out.body)
                ELSE /\ h.outcomes[Len(h.outcomes)] = "fail"
                     /\ h.lastErr = Err("io.ReadAll")

\* The transport answered the second attempt of a call with a response whose
\* body was read and whose Close failed, after one whose body could not be
\* read: both streams were closed and the call returned the Response.
C32_Witness ==
  /\ pc[1] = "done"
  /\ hist[1].answered = 2
  /\ hist[1].closed = <<Nil, Err("body.Close")>>
  /\ hist[1].outcomes = <<"fail", "ok">>
  /\ ret[1].err = Nil
  /\ ret[1].resp.bodyBlob = Blob(<<55>>)

\* The body dispatch of a materialization with a Form-Data encoder ran Close
\* before http.NewRequest was given the buffer.
CloseBeforeRead(p) ==
  LET log == hist[p].log
  IN \E a, b \in 1..Len(log) : a < b /\ log[a] = "Close" /\ log[b] = "NewRequest"

\* C33: a materialization with a Form-Data encoder runs Close before the
\* buffer is handed to the wire request, and an Add, AddFile or Close called
\* on an encoder that was closed before returns an error and leaves the
\* buffer as it was.
C33_FinalizedEncoderRejectsUse ==
  /\ \A p \in Procs :
       (Materialized(p) /\ dispatchKind(args[p].body) = "FormData") => CloseBeforeRead(p)
  /\ (seen.formCall # Nil /\ seen.formCall.closed) =>
       /\ seen.formCall.err # Nil
       /\ seen.formCall.after = seen.formCall.before

\* The part of C33 about the materialization alone.
C33_ClosedWhenMaterialized ==
  \A p \in Procs :
    (Materialized(p) /\ dispatchKind(args[p].body) = "FormData") =>
      /\ CloseBeforeRead(p)
      /\ put.closes >= 1

\* The calls of the configuration methods with an argument they do not accept.
InvalidCalls == {"BasicAuth", "Result", "Client"}

C35_WireRequestFrozen ==
  [][request.req # Nil =>
       /\ request'.req # Nil
       /\ request'.req.method = request.req.method
       /\ request'.req.url = request.req.url
       /\ request'.req.rawQuery = request.req.rawQuery
       /\ request'.req.header = request.req.header
       /\ request'.req.body = request.req.body
       /\ \A p \in Procs :
            (pc[p] = "attempt" /\ pc'[p] = "inflight") =>
              sentIds' = sentIds \cup {request.req.id}
    ]_vars

\* A later call, POST of "/a?k=v" with a JSON body, is in flight on a Request
\* whose wire request a GET of "/a" without a body had made; a header, a
\* cookie, a query variable, credentials and a hook were configured in
\* between, and the wire request has none of them.
C35_Witness ==
  /\ pc[1] = "inflight"
  /\ ~hist[1].fresh
  /\ args[1] = [method |-> sPOST, url |-> uAQ, body |-> bJson]
  /\ request.req.method = sGET
  /\ request.req.rawQuery = <<>>
  /\ request.req.body.kind = "none"
  /\ request.req.header = EmptyMap
  /\ DOMAIN request.headers = {sXH, sAuthorization}
  /\ DOMAIN request.cookies = {sk}
  /\ DOMAIN request.queryVariables = {sk}
  /\ request.basic.username = su /\ request.bearerToken = st
  /\ request.options # <<>>

\* C36: a call with a positive timeout that passes the pre-flight check
\* stores the timeout context in the Request and cancels it when it returns;
\* the Request never holds the caller's context again, and every later call
\* returns from the pre-flight check with ErrContextCanceledAndHasError, a
\* nil Response and no transport call, whatever the caller's context is.
C36_TimeoutContextStays ==
  [][\A p \in Procs :
       /\ (pc[p] = "preflight" /\ pc'[p] = "attempt" /\ request.timeout > 0) =>
            /\ request'.ctx = "timeout"
            /\ ~ctxState'.timeout.done
       /\ (pc[p] \in {"attempt", "inflight", "sleep"} /\ request.timeout > 0) =>
            /\ request.ctx = "timeout"
            /\ pc'[p] = "done" => ctxState'.timeout.done
       /\ request.ctx = "timeout" => request'.ctx = "timeout"
       /\ (pc[p] = "preflight" /\ request.ctx = "timeout" /\ pc'[p] # "preflight") =>
            /\ pc'[p] = "done"
            /\ ret'[p].resp = Nil
            /\ ret'[p].err # Nil
            /\ ret'[p].err.cause = Err("context.canceled_and_has_error")
            /\ hist'[p].attempts = 0 /\ hist'[p].sent = 0
            /\ sentIds' = sentIds
    ]_vars

\* A call has returned from the pre-flight check with
\* ErrContextCanceledAndHasError although the caller's context is live: the
\* Request holds the timeout context an earlier call left canceled.
C36_Witness ==
  /\ pc[1] = "done"
  /\ request.ctx = "timeout"
  /\ ~ctxState.caller.done /\ ~ctxState.caller.err
  /\ hist[1].attempts = 0
  /\ ret[1].err # Nil
  /\ ret[1].err.cause = Err("context.canceled_and_has_error")

\* Where the error of a call can come from: the pre-flight check, the
\* materialization, the transport, the read of the response body.
ErrorOrigins ==
  PreflightErrors \cup MaterializeErrors \cup {"transport", "io.ReadAll"}

\* C37: the error a call returned, whatever it came from, is wrapped with
\* RequestRetryDo and carries the method and url arguments of the call and
\* whether a non-nil body was passed.
C37_EveryErrorWrapped ==
  \A p \in Procs :
    (pc[p] = "done" /\ ret[p].err # Nil) =>
      /\ ret[p].err.kind = "request.retry_do"
      /\ ret[p].err.method = args[p].method
      /\ ret[p].err.url = args[p].url
      /\ ret[p].err.body = (args[p].body # Nil)
      /\ ret[p].err.cause.kind \in ErrorOrigins

\* A POST with a body has returned the error of reading the response body,
\* wrapped.
C37_Witness ==
  /\ pc[1] = "done"
  /\ args[1].method = sPOST /\ args[1].body # Nil
  /\ ret[1].err # Nil
  /\ ret[1].err.kind = "request.retry_do"
  /\ ret[1].err.cause = Err("io.ReadAll")
  /\ ret[1].err.body

\* C38: a call that has returned gave either a Response and no error or an
\* error and no Response; the Response holds the body of the answer of its
\* last attempt, read to the end.
C38_ResponseXorError ==
  \A p \in Procs :
    pc[p] = "done" =>
      /\ (ret[p].err = Nil) # (ret[p].resp = Nil)
      /\ ret[p].err = Nil =>
           /\ ret[p].resp.bodyBlob # Nil
           /\ hist[p].delivered # Nil
           /\ hist[p].delivered.kind = "response"
           /\ ret[p].resp.bodyBlob = Blob(hist[p].delivered.body)
           /\ ret[p].resp.status = hist[p].delivered.status

\* A second call on the Request has returned an error and no Response after
\* its two attempts, the first of which got a response whose body could not
\* be read; the Request still holds a Response.
C38_Witness ==
  /\ pc[1] = "done"
  /\ ~hist[1].fresh
  /\ hist[1].outcomes = <<"fail", "fail">>
  /\ hist[1].answered = 1
  /\ request.response # Nil
  /\ ret[1].resp = Nil
  /\ ret[1].err # Nil

\* The value the latest write of the header name gave it before the range
\* loop of the call of p: the Content-Type of the body dispatch for an
\* encoder body, else that of the latest configuration call.
LastWritten(p, name) ==
  LET kind == dispatchKind(args[p].body)
  IN IF name = sContentType /\ kind \in {"FormData", "Bytes"} THEN args[p].body.contentType
     ELSE IF name = sContentType /\ kind = "FormUrlEncoded" THEN sFormUrlEncoded
     ELSE lastSet[name]

\* The header names written by the configuration calls and the body dispatch
\* of the call of p.
WrittenNames(p) ==
  DOMAIN lastSet
    \cup (IF dispatchKind(args[p].body) \in {"FormData", "Bytes", "FormUrlEncoded"}
            THEN {sContentType} ELSE {})

\* C39: every header a configuration call or the body dispatch wrote, under
\* whatever spelling of its name, has on the wire request the value of the
\* latest write, unless a hook sets it; so the headers sent are determined by
\* the sequence of calls.
C39_HeadersLastWriteWins ==
  \A p \in Procs : Materialized(p) =>
    \A name \in WrittenNames(p) :
      ~HookSets(request, name) =>
        HeaderGet(request.req.header, name) = LastWritten(p, name)

\* C39 for the Requests whose headers map has canonical keys only.
C39_CanonicalKeysOnly ==
  \A p \in Procs :
    (Materialized(p) /\ \A k \in DOMAIN request.headers : k = CanonicalMIMEHeaderKey(k)) =>
      \A name \in WrittenNames(p) :
        ~HookSets(request, name) =>
          HeaderGet(request.req.header, name) = LastWritten(p, name)

\* C40: once a Request was obtained from the Client, no configuration or
\* execution call on it changes any field of the Client, and another Request
\* obtained from the Client, before or after those calls, has exactly what
\* Client.R makes of the Client's fields and keeps it.
C40_DerivedRequestsIsolated ==
  [][derived =>
       /\ client' = client
       /\ sibling # Nil => sibling' = sibling
       /\ sibling' # Nil => sibling' = ClientR(client', "caller")]_vars

\* The Client has the header X-H, the Request obtained from it was given
\* another value for X-H and is in its first attempt, where the body dispatch
\* wrote Content-Type into its headers map; the other Request was obtained
\* before the call.
C40_Witness ==
  /\ derived
  /\ sibling # Nil
  /\ pc[1] = "inflight"
  /\ hist[1].fresh
  /\ sXH \in DOMAIN client.headers
  /\ request.headers[sXH] # client.headers[sXH]
  /\ sContentType \in DOMAIN request.headers
  /\ sContentType \notin DOMAIN client.headers
  /\ sContentType \notin DOMAIN sibling.headers

\* C6: when the deadline of a configured timeout passes while an attempt is
\* in flight, the call returns an error.
C6_TimeoutAbortsInFlight ==
  \A p \in Procs : (pc[p] = "done" /\ hist[p].expired) => ret[p].err # Nil
====
